---- MODULE Spec2Model ----
(***************************************************************************)
(* Model of the pachinko game of src/script.js (class PachinkoGame):       *)
(* the weighted pocket selector (pickPocket), the random-source            *)
(* normalisation (getRandom) and the two-stage outcome resolver            *)
(* (resolvePocketOutcome).                                                 *)
(*                                                                         *)
(* Numbers.  A random draw is a real in [0,1).  The model puts draws and   *)
(* rates on the grid of multiples of 1/RandDen: the integer n stands for   *)
(* the real n/RandDen, so 1.0 is RandDen and 0.5 is HalfDen.  Weights,     *)
(* rewards and the rush multiplier are integers.  All comparisons of the  *)
(* code are then exact integer comparisons.                                *)
(*                                                                         *)
(* Optional fields.  A field that may be absent (undefined/null in the     *)
(* source, read through `??` or a truthiness test) is <<>> when absent     *)
(* and <<v>> when it holds v.                                              *)
(*                                                                         *)
(* Random provider.  config.randomProvider is a function with its own      *)
(* state; randomScript holds the values its next calls return, up to the   *)
(* horizon of the model.  A method that draws takes them from the head of  *)
(* the script; a call that needs more values than the script holds lies    *)
(* beyond the horizon and is not taken.                                    *)
(*                                                                         *)
(* Game.  Spec is the mounted game (mountPachinko: constructor and init)   *)
(* with all its elements present, driven by clicks on the shoot and reset  *)
(* buttons and by the animationend events of the balls on the board.       *)
(* The event log holds the kind of each message, not its text.             *)
(* SpecConstruct starts before the constructor, with any set of elements.  *)
(*                                                                         *)
(* Slot machine.  SpecSlot is the mounted machine of class SlotMachine of  *)
(* the same file; it shares no state with the game, and uses the           *)
(* variables credits, initialCredits, maxLogItems and eventLog for its own *)
(* fields of the same names.                                               *)
(*                                                                         *)
(* Reel variant.  SpecReel is buildReelSequence of the variant of the game *)
(* in src/unnamed/part_001, which shows each outcome on three reels;       *)
(* SpecPlay is that variant mounted, with the sequences played on the      *)
(* reels by promise chains and timers.                                     *)
(*                                                                         *)
(* Fairness.  SpecLive is the game of Spec with the animationend event of  *)
(* every ball on the board eventually delivered.                           *)
(***************************************************************************)
EXTENDS Integers, Sequences, FiniteSets, TLC

VARIABLES
    pockets,              \* this.config.pockets
    hitRate,              \* this.config.hitRate          (grid units, optional)
    rushRate,             \* this.config.rushRate         (grid units, optional)
    rushRewardMultiplier, \* this.config.rushRewardMultiplier (optional)
    randomScript,         \* this.config.randomProvider: the values it returns next, in order
    initialCredits,       \* this.config.initialCredits
    ballCost,             \* this.config.ballCost
    maxLogItems,          \* this.config.maxLogItems
    hasBoard,             \* this.board is an element (not null)
    animationDuration,    \* this.config.animationDuration (ms)
    ballCanListen,        \* typeof ball.addEventListener === 'function'
    credits,              \* this.credits (of the game; of the slot machine in SpecSlot, as are
                          \* initialCredits, maxLogItems and eventLog)
    ballCount,            \* this.ballCount
    isDropping,           \* this.isDropping
    lastOutcome,          \* this.lastOutcome (optional)
    eventLog,             \* this.eventLog.children, newest first, as message kinds
    shootDisabled,        \* this.shootButton.disabled
    lastResult,           \* this.lastResultDisplay.textContent: the pocket shown (0: none) and the text
    balls,                \* the balls on the board whose animationend listener is pending: their pockets, in launch order
    lastOp,               \* the method or handler run last: "none", "pickPocket", "resolvePocketOutcome",
                          \* "handleShoot", "animationEnd", "handleReset", "constructor", "init", "addLog",
                          \* "handleBet", "handleSpin", "intervalTick", "stopReel", "buildReelSequence",
                          \* "reelStepStart", "reelTimeout", "reachTimeout"
    pocketArg,            \* index in pockets of the pocket passed to resolvePocketOutcome during it (0: not called)
    picked,               \* index in pockets of the pocket pickPocket returned during it (0: not called)
    outcome,              \* the object resolvePocketOutcome returned during it
    provided,             \* the values the random provider returned during the call, in order
    drawn,                \* the same draws as getRandom returned them, in order
    elements,             \* the `elements` argument of the constructor: which required elements it holds
    pocketsIsArray,       \* Array.isArray(this.config.pockets)
    logged,               \* the messages passed to addLog since the log was last empty, oldest first
                          \* (kept by the calls of addLog on their own, SpecLog)
    bet,                  \* SlotMachine: this.bet
    maxBet,               \* SlotMachine: this.config.maxBet
    isSpinning,           \* SlotMachine: this.isSpinning
    reels,                \* SlotMachine: this.reels, each with isSpinning, intervalId (TRUE: a timer is set),
                          \* stopDisabled (stopButton.disabled) and currentSymbols
    spinDisabled,         \* SlotMachine: this.spinButton.disabled
    reelSymbols,          \* reel variant: this.config.reelSymbols (optional: absent or no array)
    reachChance,          \* reel variant: this.config.reachChance (grid units, optional)
    outcomeArg,           \* reel variant: the outcome passed to buildReelSequence during it
    reelSequence,         \* reel variant: the steps buildReelSequence returned, each with symbol,
                          \* triggerReach and isFinal (an absent flag is FALSE)
    reelSpinDuration,     \* reel variant: this.config.reelSpinDuration (ms)
    reachHoldDuration,    \* reel variant: this.config.reachHoldDuration (ms)
    reelElements,         \* reel variant: this.reels, each with the classes is-spinning, is-win, is-rush
                          \* of its element and the text of its symbol (<<>>: no reel container)
    reachVisible,         \* reel variant: this.reachDisplay has the class is-visible
    reachTimeout,         \* reel variant: this.reachTimeout holds a pending timer
    chains,               \* reel variant: the promise chains of playReelSequence still running, each with
                          \* its sequence, its outcome, the index of its current step, what it waits for
                          \* ("microtask": the step is about to start, "timeout": its reel spins) and the
                          \* reels it has stopped so far; chains waiting for a timeout are in the order
                          \* their timers were set
    ballDraws,            \* reel variant: for each ball of `balls`, the length of randomScript when its
                          \* pocket had been picked
    lastStep,             \* reel variant: what the handler run last did to the reels: the reel it started
                          \* and the reel it stopped (0: none), and the chain that step belongs to
    instance              \* the game object: "none" (not constructed), "thrown" (the constructor threw),
                          \* "constructed", "mounted" (init() has registered the click listeners)

configVars == <<pockets, hitRate, rushRate, rushRewardMultiplier>>
callVars == <<lastOp, pocketArg, picked, outcome, provided, drawn>>
gameConfigVars == <<initialCredits, ballCost, maxLogItems, hasBoard, animationDuration, ballCanListen>>
gameVars == <<credits, ballCount, isDropping, lastOutcome, eventLog, shootDisabled, lastResult, balls>>
setupVars == <<elements, pocketsIsArray, instance>>
slotVars == <<bet, maxBet, isSpinning, reels, spinDisabled>>
reelVars == <<reelSymbols, reachChance, outcomeArg, reelSequence>>
playVars == <<reelSpinDuration, reachHoldDuration, reelElements, reachVisible, reachTimeout,
              chains, ballDraws, lastStep>>
restVars == <<setupVars, logged, slotVars, reelVars, playVars>>
vars == <<configVars, randomScript, callVars, gameConfigVars, gameVars, restVars>>

----------------------------------------------------------------------------
(* Bounds of the model *)

HalfDen == 2
RandDen == 2 * HalfDen
MaxPockets == 3
MaxWeight == 2
MaxReward == 2

----------------------------------------------------------------------------
(* Values *)

None == <<>>
Some(v) == <<v>>
Opt(S) == {None} \cup {Some(v) : v \in S}

\* `x ?? d`
Coalesce(x, d) == IF x = None THEN d ELSE x[1]

\* the truthiness of an optional number: absent and 0 are falsy
Truthy(x) == x # None /\ x[1] # 0

Max(a, b) == IF a >= b THEN a ELSE b
Min(a, b) == IF a <= b THEN a ELSE b
Abs(a) == IF a < 0 THEN -a ELSE a

\* Math.floor of a non-negative grid value, as a grid value
Floor(value) == (value \div RandDen) * RandDen

MissOutcome == [isWin |-> FALSE, reward |-> 0, isRush |-> FALSE]

\* DEFAULT_CONFIG.pockets: jackpot, gold, silver-left, silver-right, miss
DefaultPockets ==
    << [reward |-> Some(50), rushReward |-> Some(200), weight |-> Some(1)],
       [reward |-> Some(20), rushReward |-> Some(80), weight |-> Some(2)],
       [reward |-> Some(10), rushReward |-> Some(40), weight |-> Some(3)],
       [reward |-> Some(10), rushReward |-> Some(40), weight |-> Some(3)],
       [reward |-> Some(0), rushReward |-> None, weight |-> Some(5)] >>

----------------------------------------------------------------------------
(* getRandom: |provider()| minus its integer part *)

getRandomNoAbs(providerValue) == providerValue - Floor(providerValue)

getRandom(providerValue) ==
    LET value == Abs(providerValue)
    IN  value - Floor(value)

\* what the random provider may return: in range, negative, 1.0 and above
ProviderValues == (0 - RandDen - 1) .. (RandDen + 1)

----------------------------------------------------------------------------
(* pickPocket *)

ClampWeightNoDefault(weight) == Max(Coalesce(weight, 0), 0)

\* Math.max(pocket.weight ?? 1, 0)
ClampWeight(weight) == Max(Coalesce(weight, 1), 0)

\* pockets.map(...)
Weights(pks) == [index \in 1 .. Len(pks) |-> ClampWeight(pks[index].weight)]

RECURSIVE Reduce(_, _)
\* weights.reduce((sum, weight) => sum + weight, 0) over the first n weights
Reduce(weights, n) ==
    IF n = 0 THEN 0 ELSE Reduce(weights, n - 1) + weights[n]

IsDegenerateStrict(totalWeight) == totalWeight < 0

\* totalWeight <= 0
IsDegenerate(totalWeight) == totalWeight <= 0

TargetUnscaled(random, totalWeight) == random

\* this.getRandom() * totalWeight   (a grid value)
Target(random, totalWeight) == random * totalWeight

WalkHitInclusive(randomValue, cumulative) == randomValue <= cumulative * RandDen

\* randomValue < cumulative   (cumulative is an integer, randomValue a grid value)
WalkHit(randomValue, cumulative) == randomValue < cumulative * RandDen

RECURSIVE Walk(_, _, _, _)
\* the for loop of pickPocket from `index` on (1-based), and the fallback after it
Walk(weights, randomValue, index, cumulative) ==
    IF index > Len(weights)
    THEN Len(weights)
    ELSE LET next == cumulative + weights[index]
         IN  IF WalkHit(randomValue, next)
             THEN index
             ELSE Walk(weights, randomValue, index + 1, next)

\* pickPocket with the provider returning tape[1], tape[2], ...:
\* the index of the pocket returned and the provider values consumed
pickPocket(pks, tape) ==
    LET weights == Weights(pks)
        totalWeight == Reduce(weights, Len(weights))
    IN  IF IsDegenerate(totalWeight)
        THEN [pocket |-> 1, used |-> <<>>]
        ELSE [pocket |-> Walk(weights, Target(getRandom(tape[1]), totalWeight), 1, 0),
              used |-> <<tape[1]>>]

----------------------------------------------------------------------------
(* resolvePocketOutcome *)

RewardGateStrict(reward) == reward < 0

\* reward <= 0
RewardGate(reward) == reward <= 0

\* Math.max(0, Math.min(1, rate ?? 0))
ClampRate(rate) == Max(0, Min(RandDen, Coalesce(rate, 0)))

ClampMultiplierNoFloor(multiplier) == Coalesce(multiplier, 1)

\* Math.max(1, this.config.rushRewardMultiplier ?? 1)
ClampMultiplier(multiplier) == Max(1, Coalesce(multiplier, 1))

HitFailsStrict(hitRoll, clampedHitRate) == hitRoll > clampedHitRate

\* hitRoll >= hitRate
HitFails(hitRoll, clampedHitRate) == hitRoll >= clampedHitRate

IsRushRollInclusive(rushRoll, clampedRushRate) == rushRoll <= clampedRushRate

\* rushRoll < rushRate
IsRushRoll(rushRoll, clampedRushRate) == rushRoll < clampedRushRate

RushRewardNoFloor(pocket, reward, rushMultiplier) ==
    IF Truthy(pocket.rushReward)
    THEN pocket.rushReward[1]
    ELSE reward * rushMultiplier

\* pocket.rushReward ? Math.max(pocket.rushReward, reward) : reward * rushMultiplier
RushReward(pocket, reward, rushMultiplier) ==
    IF Truthy(pocket.rushReward)
    THEN Max(pocket.rushReward[1], reward)
    ELSE reward * rushMultiplier

PaidRewardAlwaysRush(isRush, rushReward, reward) == rushReward

\* isRush ? rushReward : reward
PaidReward(isRush, rushReward, reward) == IF isRush THEN rushReward ELSE reward

resolvePocketOutcomeRushFirst(pocket, tape) ==
    LET reward == Coalesce(pocket.reward, 0)
        clampedHitRate == ClampRate(hitRate)
        clampedRushRate == ClampRate(rushRate)
        rushMultiplier == ClampMultiplier(rushRewardMultiplier)
    IN  IF RewardGate(reward) \/ clampedHitRate <= 0
        THEN [outcome |-> MissOutcome, used |-> <<>>]
        ELSE LET isRush == IsRushRoll(getRandom(tape[1]), clampedRushRate)
                 rushReward == RushReward(pocket, reward, rushMultiplier)
             IN  IF HitFails(getRandom(tape[2]), clampedHitRate)
                 THEN [outcome |-> MissOutcome, used |-> <<tape[1], tape[2]>>]
                 ELSE [outcome |-> [isWin |-> TRUE,
                                    reward |-> PaidReward(isRush, rushReward, reward),
                                    isRush |-> isRush],
                       used |-> <<tape[1], tape[2]>>]

\* resolvePocketOutcome(pocket) with the provider returning tape[1], tape[2], ...:
\* the outcome returned and the provider values consumed
resolvePocketOutcome(pocket, tape) ==
    LET reward == Coalesce(pocket.reward, 0)
        clampedHitRate == ClampRate(hitRate)
        clampedRushRate == ClampRate(rushRate)
        rushMultiplier == ClampMultiplier(rushRewardMultiplier)
    IN  IF RewardGate(reward)
        THEN [outcome |-> MissOutcome, used |-> <<>>]
        ELSE IF clampedHitRate <= 0
        THEN [outcome |-> MissOutcome, used |-> <<>>]
        ELSE IF HitFails(getRandom(tape[1]), clampedHitRate)
        THEN [outcome |-> MissOutcome, used |-> <<tape[1]>>]
        ELSE LET isRush == IsRushRoll(getRandom(tape[2]), clampedRushRate)
                 rushReward == RushReward(pocket, reward, rushMultiplier)
             IN  [outcome |-> [isWin |-> TRUE,
                               reward |-> PaidReward(isRush, rushReward, reward),
                               isRush |-> isRush],
                  used |-> <<tape[1], tape[2]>>]

----------------------------------------------------------------------------
(* The selector on its own: any pocket list, any provider value *)

WeightValues == Opt((0 - 1) .. MaxWeight)

PickPocketLists ==
    UNION {[1 .. n -> [reward : {Some(0)}, rushReward : {None}, weight : WeightValues]]
           : n \in 1 .. MaxPockets}

\* DEFAULT_CONFIG: initialCredits, ballCost, maxLogItems, animationDuration
DefaultInitialCredits == 120
DefaultBallCost == 1
DefaultMaxLogItems == 8
DefaultAnimationDuration == 1400

NoResult == [pocket |-> 0, text |-> ""]

\* the elements mountPachinko finds in a complete document
AllElements == [creditDisplay |-> TRUE, ballCountDisplay |-> TRUE, eventLog |-> TRUE]

\* DEFAULT_CONFIG of the slot machine: maxBet
DefaultMaxBet == 3

\* no slot machine in the document
NoSlot ==
    /\ bet = 0
    /\ maxBet = DefaultMaxBet
    /\ isSpinning = FALSE
    /\ reels = <<>>
    /\ spinDisabled = FALSE

\* the game of src/script.js has no reels
NoReels ==
    /\ reelSymbols = None
    /\ reachChance = None
    /\ outcomeArg = MissOutcome
    /\ reelSequence = <<>>

\* DEFAULT_CONFIG of the reel variant: reelSpinDuration, reachHoldDuration
DefaultReelSpinDuration == 600
DefaultReachHoldDuration == 1600

\* no reel touched by the handler run last
NoStep ==
    [started |-> 0, stopped |-> 0, completed |-> FALSE, order |-> <<>>, sequence |-> <<>>,
     result |-> MissOutcome]

\* no reel container in the document, no sequence played
NoPlay ==
    /\ reelSpinDuration = DefaultReelSpinDuration
    /\ reachHoldDuration = DefaultReachHoldDuration
    /\ reelElements = <<>>
    /\ reachVisible = FALSE
    /\ reachTimeout = FALSE
    /\ chains = <<>>
    /\ ballDraws = <<>>
    /\ lastStep = NoStep

\* a game constructed with the default configuration, before init()
Constructed ==
    /\ NoSlot
    /\ NoReels
    /\ NoPlay
    /\ elements = AllElements
    /\ pocketsIsArray = TRUE
    /\ instance = "constructed"
    /\ logged = <<>>
    /\ initialCredits = DefaultInitialCredits
    /\ ballCost = DefaultBallCost
    /\ maxLogItems = DefaultMaxLogItems
    /\ hasBoard = TRUE
    /\ animationDuration = DefaultAnimationDuration
    /\ ballCanListen = TRUE
    /\ credits = initialCredits
    /\ ballCount = 0
    /\ isDropping = FALSE
    /\ lastOutcome = None
    /\ eventLog = <<>>
    /\ shootDisabled = FALSE
    /\ lastResult = NoResult
    /\ balls = <<>>

NoCall ==
    /\ lastOp = "none"
    /\ pocketArg = 0
    /\ picked = 0
    /\ outcome = MissOutcome
    /\ provided = <<>>
    /\ drawn = <<>>

\* the scripts of the random provider: n values
Scripts(values, n) == [1 .. n -> values]

\* the script once its first n values are consumed
Rest(script, n) == SubSeq(script, n + 1, Len(script))

InitPick ==
    /\ pockets \in PickPocketLists \cup {DefaultPockets}
    /\ hitRate = Some(HalfDen)
    /\ rushRate = Some(HalfDen)
    /\ rushRewardMultiplier = Some(1)
    /\ randomScript \in Scripts(ProviderValues, 1)
    /\ Constructed
    /\ NoCall

\* a call of pickPocket
CallPickPocket ==
    LET res == pickPocket(pockets, randomScript \o <<0>>)
    IN  /\ Len(res.used) <= Len(randomScript)
        /\ lastOp' = "pickPocket"
        /\ picked' = res.pocket
        /\ provided' = res.used
        /\ drawn' = [k \in 1 .. Len(res.used) |-> getRandom(res.used[k])]
        /\ randomScript' = Rest(randomScript, Len(res.used))
        /\ UNCHANGED <<pocketArg, outcome, configVars, gameConfigVars, gameVars, restVars>>

NextPick == CallPickPocket

SpecPick == InitPick /\ [][NextPick]_vars

----------------------------------------------------------------------------
(* The resolver on its own: any pocket, any probability configuration,     *)
(* any provider values                                                     *)

RateValues == Opt((0 - 1) .. (RandDen + 1))

MultiplierValues == Opt(0 .. MaxReward)

ResolvePockets ==
    [reward : Opt((0 - 1) .. MaxReward),
     rushReward : Opt(0 .. (MaxReward + 1)),
     weight : {Some(1)}]

\* provider values of the resolver's runs: one negative, the grid of [0,1), and 1.0
ResolveProviderValues == (0 - 1) .. RandDen

InitResolve ==
    /\ pockets \in {<<pocket>> : pocket \in ResolvePockets}
    /\ hitRate \in RateValues
    /\ rushRate \in RateValues
    /\ rushRewardMultiplier \in MultiplierValues
    /\ randomScript \in Scripts(ResolveProviderValues, 2)
    /\ Constructed
    /\ NoCall

\* a call of resolvePocketOutcome on one of the configured pockets
CallResolvePocketOutcome ==
    \E index \in 1 .. Len(pockets) :
        LET res == resolvePocketOutcome(pockets[index], randomScript \o <<0, 0>>)
        IN  /\ Len(res.used) <= Len(randomScript)
            /\ lastOp' = "resolvePocketOutcome"
            /\ pocketArg' = index
            /\ outcome' = res.outcome
            /\ provided' = res.used
            /\ drawn' = [k \in 1 .. Len(res.used) |-> getRandom(res.used[k])]
            /\ randomScript' = Rest(randomScript, Len(res.used))
            /\ UNCHANGED <<picked, configVars, gameConfigVars, gameVars, restVars>>

NextResolve == CallResolvePocketOutcome

SpecResolve == InitResolve /\ [][NextResolve]_vars

----------------------------------------------------------------------------
(* The selector and the resolver called one after the other on one random   *)
(* provider, which may return any value                                     *)

DrawsLen == 3

\* two pockets of equal weight, the first one paying
DrawsPocketLists ==
    {<< [reward |-> Some(1), rushReward |-> None, weight |-> Some(1)],
        [reward |-> Some(r), rushReward |-> None, weight |-> Some(1)] >> : r \in {0, 1}}

InitDraws ==
    /\ pockets \in DrawsPocketLists
    /\ hitRate = Some(RandDen)
    /\ rushRate = Some(HalfDen)
    /\ rushRewardMultiplier = Some(1)
    /\ randomScript \in Scripts(ProviderValues, DrawsLen)
    /\ Constructed
    /\ NoCall

NextDraws ==
    \/ CallPickPocket
    \/ CallResolvePocketOutcome

SpecDraws == InitDraws /\ [][NextDraws]_vars

----------------------------------------------------------------------------
(* The game: handleShoot, animateBall, finalizeDrop, handleReset *)

MaxCredits == 2
MaxLogItems == 2
ScriptLen == 4

addLogKeepsOldest(log, message) ==
    IF Len(log) >= maxLogItems THEN log ELSE <<message>> \o log

\* addLog(message): prepend, then drop the oldest entries beyond maxLogItems
addLog(log, message) ==
    LET added == <<message>> \o log
    IN  IF Len(added) > maxLogItems
        THEN SubSeq(added, 1, Max(maxLogItems, 0))
        ELSE added

InsufficientNever(have, cost) == FALSE

InsufficientOffByOne(have, cost) == have + 1 < cost

\* this.credits < this.config.ballCost
Insufficient(have, cost) == have < cost

ChargeTwice(have, cost) == have - 2 * cost

\* this.credits -= this.config.ballCost
Charge(have, cost) == have - cost

FinalizesImmediatelyAlways == TRUE

\* animateBall finalizes within the call: no board, or a falsy
\* animationDuration, or a ball without addEventListener
FinalizesImmediately ==
    \/ ~hasBoard
    \/ animationDuration = 0
    \/ ~ballCanListen

\* the kind of the message finalizeDrop logs and of the text updateLastResult shows
ResultKind(result) ==
    IF result.isWin
    THEN (IF result.isRush THEN "rush" ELSE "win")
    ELSE "miss"

\* finalizeDrop(pocket), entered with the credits `have` and the log `log`,
\* after `before` provider values were consumed in the same handler
finalizeDrop(pocket, have, log, before) ==
    LET rest == Rest(randomScript, before)
        res == resolvePocketOutcome(pockets[pocket], rest \o <<0, 0>>)
    IN  /\ Len(res.used) <= Len(rest)
        /\ credits' = (IF res.outcome.reward > 0 THEN have + res.outcome.reward ELSE have)
        /\ isDropping' = FALSE
        /\ shootDisabled' = FALSE
        /\ lastOutcome' = Some(res.outcome)
        /\ lastResult' = [pocket |-> pocket, text |-> ResultKind(res.outcome)]
        /\ eventLog' = addLog(log, ResultKind(res.outcome))
        /\ pocketArg' = pocket
        /\ outcome' = res.outcome
        /\ provided' = SubSeq(randomScript, 1, before + Len(res.used))
        /\ drawn' = [k \in 1 .. (before + Len(res.used)) |-> getRandom(randomScript[k])]
        /\ randomScript' = Rest(rest, Len(res.used))

\* handleShoot while a ball is dropping: a log entry only
ShootWhileDropping ==
    /\ isDropping
    /\ eventLog' = addLog(eventLog, "dropping")
    /\ picked' = 0
    /\ pocketArg' = 0
    /\ outcome' = MissOutcome
    /\ provided' = <<>>
    /\ drawn' = <<>>
    /\ UNCHANGED <<credits, ballCount, isDropping, lastOutcome, shootDisabled,
                   lastResult, balls, randomScript>>

\* handleShoot without the credits for a ball: a log entry only
ShootInsufficient ==
    /\ ~isDropping
    /\ Insufficient(credits, ballCost)
    /\ eventLog' = addLog(eventLog, "insufficient")
    /\ picked' = 0
    /\ pocketArg' = 0
    /\ outcome' = MissOutcome
    /\ provided' = <<>>
    /\ drawn' = <<>>
    /\ UNCHANGED <<credits, ballCount, isDropping, lastOutcome, shootDisabled,
                   lastResult, balls, randomScript>>

\* handleShoot accepted: charge, count, pick, launch; animateBall either
\* finalizes within the call or leaves the ball to its animationend event
ShootAccepted ==
    /\ ~isDropping
    /\ ~Insufficient(credits, ballCost)
    /\ LET charged == Charge(credits, ballCost)
           pick == pickPocket(pockets, randomScript \o <<0>>)
           log == addLog(eventLog, "shoot")
       IN  /\ Len(pick.used) <= Len(randomScript)
           /\ ballCount' = ballCount + 1
           /\ picked' = pick.pocket
           /\ IF FinalizesImmediately
              THEN /\ finalizeDrop(pick.pocket, charged, log, Len(pick.used))
                   /\ balls' = balls
              ELSE /\ credits' = charged
                   /\ isDropping' = TRUE
                   /\ shootDisabled' = TRUE
                   /\ eventLog' = log
                   /\ balls' = Append(balls, pick.pocket)
                   /\ pocketArg' = 0
                   /\ outcome' = MissOutcome
                   /\ provided' = pick.used
                   /\ drawn' = [k \in 1 .. Len(pick.used) |-> getRandom(pick.used[k])]
                   /\ randomScript' = Rest(randomScript, Len(pick.used))
                   /\ UNCHANGED <<lastOutcome, lastResult>>

\* a click on the shoot button
HandleShoot ==
    /\ instance = "mounted"
    /\ lastOp' = "handleShoot"
    /\ \/ ShootWhileDropping
       \/ ShootInsufficient
       \/ ShootAccepted
    /\ UNCHANGED <<configVars, gameConfigVars, restVars>>

\* the animationend event of the ball launched first among those on the board:
\* the `finalize` listener of animateBall removes the ball and calls finalizeDrop
AnimationEnd ==
    /\ instance = "mounted"
    /\ balls # <<>>
    /\ lastOp' = "animationEnd"
    /\ finalizeDrop(Head(balls), credits, eventLog, 0)
    /\ balls' = Tail(balls)
    /\ picked' = 0
    /\ UNCHANGED <<ballCount, configVars, gameConfigVars, restVars>>

HandleResetKeepsLog ==
    /\ instance = "mounted"
    /\ lastOp' = "handleReset"
    /\ credits' = initialCredits
    /\ ballCount' = 0
    /\ isDropping' = FALSE
    /\ lastResult' = [pocket |-> 0, text |-> "---"]
    /\ shootDisabled' = FALSE
    /\ eventLog' = addLog(eventLog, "reset")
    /\ picked' = 0
    /\ pocketArg' = 0
    /\ outcome' = MissOutcome
    /\ provided' = <<>>
    /\ drawn' = <<>>
    /\ UNCHANGED <<lastOutcome, balls, randomScript, configVars, gameConfigVars, restVars>>

\* a click on the reset button
HandleReset ==
    /\ instance = "mounted"
    /\ lastOp' = "handleReset"
    /\ credits' = initialCredits
    /\ ballCount' = 0
    /\ isDropping' = FALSE
    /\ lastResult' = [pocket |-> 0, text |-> "---"]
    /\ shootDisabled' = FALSE
    /\ eventLog' = addLog(<<>>, "reset")
    /\ picked' = 0
    /\ pocketArg' = 0
    /\ outcome' = MissOutcome
    /\ provided' = <<>>
    /\ drawn' = <<>>
    /\ UNCHANGED <<lastOutcome, balls, randomScript, configVars, gameConfigVars, restVars>>

\* the pocket lists of the game's runs: a paying pocket and a miss pocket of
\* equal weight, and the same with the paying pocket alone carrying the weight
GamePocketLists ==
    {<< [reward |-> Some(1), rushReward |-> Some(MaxReward), weight |-> Some(1)],
        [reward |-> Some(0), rushReward |-> None, weight |-> Some(w)] >> : w \in {0, 1}}

\* provider values of the game's runs: a draw below and a draw not below 0.5
GameProviderValues == {0, HalfDen}

\* the state after mountPachinko: constructor, then init()
Init ==
    /\ pockets \in GamePocketLists
    /\ hitRate = Some(HalfDen)
    /\ rushRate = Some(HalfDen)
    /\ rushRewardMultiplier = Some(MaxReward)
    /\ randomScript \in Scripts(GameProviderValues, ScriptLen)
    /\ initialCredits \in 0 .. MaxCredits
    /\ ballCost \in 0 .. MaxCredits
    /\ maxLogItems \in 1 .. MaxLogItems
    /\ hasBoard \in BOOLEAN
    /\ animationDuration \in {0, DefaultAnimationDuration}
    /\ ballCanListen \in BOOLEAN
    /\ credits = initialCredits
    /\ ballCount = 0
    /\ isDropping = FALSE
    /\ lastOutcome = None
    /\ eventLog = addLog(<<>>, "init")
    /\ shootDisabled = FALSE
    /\ lastResult = NoResult
    /\ balls = <<>>
    /\ elements = AllElements
    /\ pocketsIsArray = TRUE
    /\ instance = "mounted"
    /\ logged = <<>>
    /\ NoSlot
    /\ NoReels
    /\ NoPlay
    /\ NoCall

Next ==
    \/ HandleShoot
    \/ AnimationEnd
    \/ HandleReset

Spec == Init /\ [][Next]_vars

\* the provider values the finalization of a ball fallen into `pocket` may
\* consume: none for a pocket without reward, else the hit and the rush roll
DrawsToFinalize(pocket) ==
    IF RewardGate(Coalesce(pockets[pocket].reward, 0)) THEN 0 ELSE 2

\* the provider values the balls on the board may still consume
DrawsPending ==
    2 * Cardinality({k \in 1 .. Len(balls) : DrawsToFinalize(balls[k]) > 0})

\* the script holds a whole further round (selection, hit roll, rush roll)
\* besides what the balls on the board may consume
RoundWithinHorizon == Len(randomScript) >= 3 + DrawsPending

\* a click on the shoot button, accepted only if its round can be played to
\* the end within the horizon of the script
LiveHandleShoot ==
    /\ isDropping \/ Insufficient(credits, ballCost) \/ RoundWithinHorizon
    /\ HandleShoot

AnimationEndLost ==
    /\ instance = "mounted"
    /\ balls # <<>>
    /\ UNCHANGED vars

\* the animationend event of a ball on the board is delivered
LiveAnimationEnd == AnimationEnd

\* the mounted game, its log showing the latest message only
InitLive == Init /\ maxLogItems = 1

NextLive ==
    \/ LiveHandleShoot
    \/ LiveAnimationEnd
    \/ HandleReset

\* the game with the animationend event of every ball on the board
\* eventually delivered: the browser ends each drop animation after
\* animationDuration; no round is started that the script cannot complete
SpecLive == InitLive /\ [][NextLive]_vars /\ WF_vars(LiveAnimationEnd)

----------------------------------------------------------------------------
(* Construction: new PachinkoGame(elements, config), then init(), for any   *)
(* set of elements and any pocket configuration                             *)

RequiredElementsMissingNoLog ==
    ~elements.creditDisplay \/ ~elements.ballCountDisplay

\* !creditDisplay || !ballCountDisplay || !eventLog
RequiredElementsMissing ==
    ~elements.creditDisplay \/ ~elements.ballCountDisplay \/ ~elements.eventLog

NoPocketsNonArrayOnly == ~pocketsIsArray

\* !Array.isArray(this.config.pockets) || this.config.pockets.length === 0
NoPockets == ~pocketsIsArray \/ Len(pockets) = 0

\* the constructor: throws, or assigns the fields
Construct ==
    /\ instance = "none"
    /\ lastOp' = "constructor"
    /\ IF RequiredElementsMissing \/ NoPockets
       THEN /\ instance' = "thrown"
            /\ UNCHANGED <<credits, ballCount, isDropping, lastOutcome>>
       ELSE /\ instance' = "constructed"
            /\ credits' = initialCredits
            /\ ballCount' = 0
            /\ isDropping' = FALSE
            /\ lastOutcome' = None
    /\ UNCHANGED <<eventLog, shootDisabled, lastResult, balls, randomScript,
                   pocketArg, picked, outcome, provided, drawn,
                   configVars, gameConfigVars, elements, pocketsIsArray, logged, slotVars,
                   reelVars, playVars>>

\* init(): registers the click listeners and logs the first message
CallInit ==
    /\ instance = "constructed"
    /\ lastOp' = "init"
    /\ instance' = "mounted"
    /\ eventLog' = addLog(eventLog, "init")
    /\ UNCHANGED <<credits, ballCount, isDropping, lastOutcome, shootDisabled,
                   lastResult, balls, randomScript,
                   pocketArg, picked, outcome, provided, drawn,
                   configVars, gameConfigVars, elements, pocketsIsArray, logged, slotVars,
                   reelVars, playVars>>

\* before `new PachinkoGame(elements, config)`: any subset of the required
\* elements, and a pocket configuration that is no array, an empty array or
\* a pocket list
InitConstruct ==
    /\ pocketsIsArray \in BOOLEAN
    /\ pockets \in (IF pocketsIsArray THEN GamePocketLists \cup {<<>>} ELSE {<<>>})
    /\ elements \in [creditDisplay : BOOLEAN, ballCountDisplay : BOOLEAN, eventLog : BOOLEAN]
    /\ instance = "none"
    /\ logged = <<>>
    /\ NoSlot
    /\ NoReels
    /\ NoPlay
    /\ hitRate = Some(HalfDen)
    /\ rushRate = Some(HalfDen)
    /\ rushRewardMultiplier = Some(MaxReward)
    /\ randomScript \in Scripts(GameProviderValues, ScriptLen)
    /\ initialCredits = MaxCredits
    /\ ballCost = DefaultBallCost
    /\ maxLogItems = MaxLogItems
    /\ hasBoard \in BOOLEAN
    /\ animationDuration = DefaultAnimationDuration
    /\ ballCanListen = TRUE
    /\ credits = 0
    /\ ballCount = 0
    /\ isDropping = FALSE
    /\ lastOutcome = None
    /\ eventLog = <<>>
    /\ shootDisabled = FALSE
    /\ lastResult = NoResult
    /\ balls = <<>>
    /\ NoCall

NextConstruct ==
    \/ Construct
    \/ CallInit
    \/ HandleShoot
    \/ AnimationEnd
    \/ HandleReset

SpecConstruct == InitConstruct /\ [][NextConstruct]_vars

----------------------------------------------------------------------------
(* The slot machine (class SlotMachine): handleBet, handleSpin, stopReel,    *)
(* handleReset and the interval timers of the spinning reels.  The machine   *)
(* is mounted with all its buttons; the random provider may return any      *)
(* value of SlotProviderValues at each call.                                *)

MaxBet == 2

\* config.reelVisibleSymbols of the runs: one symbol a reel, the centre one
VisibleSymbols == 1

\* the reel windows mountSlotMachine looks up
NumReels == 3

\* config.symbols of the runs
SlotSymbols == <<"7", "BAR">>

\* what the random provider returns in the runs: 0, 0.5 and -0.5
SlotProviderValues == {0, HalfDen, 0 - HalfDen}

\* pickRandomSymbol with the provider returning randomValue
pickRandomSymbol(randomValue) ==
    LET pool == SlotSymbols
    IN  IF Len(pool) = 0
        THEN "?"
        ELSE pool[(((Abs(randomValue) * Len(pool)) \div RandDen) % Len(pool)) + 1]

\* generateReelSymbols with the provider returning values[1], values[2], ...
generateReelSymbols(values) ==
    [k \in 1 .. Max(1, VisibleSymbols) |-> pickRandomSymbol(values[k])]

\* the provider values one refresh of a reel consumes
RefreshValues == [1 .. Max(1, VisibleSymbols) -> SlotProviderValues]

\* what the slot machine never touches
SlotFrame ==
    UNCHANGED <<configVars, randomScript, pocketArg, picked, outcome, provided, drawn,
                gameConfigVars, ballCount, isDropping, lastOutcome, shootDisabled,
                lastResult, balls, setupVars, logged, maxBet, reelVars, playVars>>

BetAtMaxStrict(wager, limit) == wager > limit

\* this.bet >= this.config.maxBet
BetAtMax(wager, limit) == wager >= limit

BetExceedsCreditsOffByOne(wager, have) == wager > have

\* this.bet + 1 > this.credits
BetExceedsCredits(wager, have) == wager + 1 > have

\* a click on the bet button
SlotHandleBet ==
    /\ lastOp' = "handleBet"
    /\ IF BetAtMax(bet, maxBet)
       THEN /\ eventLog' = addLog(eventLog, "betmax")
            /\ bet' = bet
       ELSE IF BetExceedsCredits(bet, credits)
       THEN /\ eventLog' = addLog(eventLog, "insufficient")
            /\ bet' = bet
       ELSE /\ bet' = bet + 1
            /\ eventLog' = addLog(eventLog, "bet")
    /\ UNCHANGED <<credits, isSpinning, reels, spinDisabled>>
    /\ SlotFrame

NoBetNever(wager) == FALSE

\* this.bet === 0
NoBet(wager) == wager = 0

\* startReelSpin: the reels after it, reel i refreshed with the provider
\* returning values[i][1], ...
startReelSpin(values) ==
    [i \in 1 .. Len(reels) |->
        [isSpinning |-> TRUE,
         intervalId |-> TRUE,
         stopDisabled |-> FALSE,
         currentSymbols |-> generateReelSymbols(values[i])]]

\* a click on the spin button
SlotHandleSpin ==
    /\ lastOp' = "handleSpin"
    /\ IF isSpinning
       THEN /\ eventLog' = addLog(eventLog, "spinning")
            /\ UNCHANGED <<credits, bet, isSpinning, reels, spinDisabled>>
       ELSE IF NoBet(bet)
       THEN /\ eventLog' = addLog(eventLog, "nobet")
            /\ UNCHANGED <<credits, bet, isSpinning, reels, spinDisabled>>
       ELSE IF credits < bet
       THEN /\ eventLog' = addLog(eventLog, "insufficient")
            /\ UNCHANGED <<credits, bet, isSpinning, reels, spinDisabled>>
       ELSE /\ credits' = credits - bet
            /\ bet' = 0
            /\ eventLog' = addLog(eventLog, "spin")
            /\ isSpinning' = TRUE
            /\ spinDisabled' = TRUE
            /\ \E values \in [1 .. Len(reels) -> RefreshValues] :
                   reels' = startReelSpin(values)
    /\ SlotFrame

\* a tick of the interval timer of reel `index` (counted from 1): refreshReelSymbols
SlotIntervalTick ==
    \E index \in 1 .. Len(reels), values \in RefreshValues :
        /\ reels[index].intervalId
        /\ lastOp' = "intervalTick"
        /\ reels' = [reels EXCEPT ![index].currentSymbols = generateReelSymbols(values)]
        /\ UNCHANGED <<credits, bet, isSpinning, spinDisabled, eventLog>>
        /\ SlotFrame

\* the kind of the message stopReel logs for reel `index`
StopMessage(index) == <<"stop1", "stop2", "stop3">>[index]

AnyStopped(reelsAfter) ==
    \E i \in 1 .. Len(reelsAfter) : ~reelsAfter[i].isSpinning

\* this.reels.every((item) => !item.isSpinning)
AllStopped(reelsAfter) ==
    \A i \in 1 .. Len(reelsAfter) : ~reelsAfter[i].isSpinning

\* stopReel(index - 1): a click on the stop button of reel `index` (counted
\* from 1), or a call with an index that has no reel
SlotStopReel ==
    \E index \in 1 .. (Len(reels) + 1) :
        /\ lastOp' = "stopReel"
        /\ IF index > Len(reels) \/ ~reels[index].isSpinning
           THEN UNCHANGED <<reels, isSpinning, spinDisabled, eventLog>>
           ELSE LET stopped == [reels EXCEPT ![index].intervalId = FALSE,
                                             ![index].isSpinning = FALSE,
                                             ![index].stopDisabled = TRUE]
                    log == addLog(eventLog, StopMessage(index))
                IN  IF AllStopped(stopped)
                    THEN /\ isSpinning' = FALSE
                         /\ spinDisabled' = FALSE
                         /\ reels' = [i \in 1 .. Len(stopped) |->
                                         [stopped[i] EXCEPT !.stopDisabled = TRUE]]
                         /\ eventLog' = addLog(log, "finish")
                    ELSE /\ reels' = stopped
                         /\ eventLog' = log
                         /\ UNCHANGED <<isSpinning, spinDisabled>>
        /\ UNCHANGED <<credits, bet>>
        /\ SlotFrame

stopAllReelsKeepsTimers ==
    [i \in 1 .. Len(reels) |->
        [reels[i] EXCEPT !.isSpinning = FALSE, !.stopDisabled = TRUE]]

\* stopAllReels({ silent: true }): the reels after it
stopAllReels ==
    [i \in 1 .. Len(reels) |->
        [reels[i] EXCEPT !.intervalId = FALSE, !.isSpinning = FALSE, !.stopDisabled = TRUE]]

\* a click on the reset button of the slot machine
SlotHandleReset ==
    /\ lastOp' = "handleReset"
    /\ reels' = stopAllReels
    /\ spinDisabled' = FALSE
    /\ isSpinning' = FALSE
    /\ credits' = initialCredits
    /\ bet' = 0
    /\ eventLog' = addLog(<<>>, "reset")
    /\ SlotFrame

\* the state after mountSlotMachine: constructor, then init()
InitSlot ==
    /\ initialCredits \in 0 .. MaxCredits
    /\ maxBet \in 0 .. MaxBet
    /\ maxLogItems \in 1 .. MaxLogItems
    /\ credits = initialCredits
    /\ bet = 0
    /\ isSpinning = FALSE
    /\ spinDisabled = FALSE
    /\ reels = [i \in 1 .. NumReels |->
                   [isSpinning |-> FALSE, intervalId |-> FALSE,
                    stopDisabled |-> TRUE, currentSymbols |-> <<>>]]
    /\ eventLog = addLog(<<>>, "init")
    /\ pockets = DefaultPockets
    /\ hitRate = Some(HalfDen)
    /\ rushRate = Some(HalfDen)
    /\ rushRewardMultiplier = Some(1)
    /\ randomScript = <<>>
    /\ ballCost = DefaultBallCost
    /\ hasBoard = TRUE
    /\ animationDuration = DefaultAnimationDuration
    /\ ballCanListen = TRUE
    /\ ballCount = 0
    /\ isDropping = FALSE
    /\ lastOutcome = None
    /\ shootDisabled = FALSE
    /\ lastResult = NoResult
    /\ balls = <<>>
    /\ elements = AllElements
    /\ pocketsIsArray = TRUE
    /\ instance = "none"
    /\ logged = <<>>
    /\ NoReels
    /\ NoPlay
    /\ NoCall

NextSlot ==
    \/ SlotHandleBet
    \/ SlotHandleSpin
    \/ SlotIntervalTick
    \/ SlotStopReel
    \/ SlotHandleReset

SpecSlot == InitSlot /\ [][NextSlot]_vars

----------------------------------------------------------------------------
(* The reel-sequence variant of the game (src/unnamed/part_001):            *)
(* buildReelSequence called on its own, for any outcome, any list of reel   *)
(* symbols and any reach chance                                             *)

MaxSymbols == 3
ReelScriptLen == 4

\* DEFAULT_CONFIG.reelSymbols
DefaultReelSymbols == <<"7", "BAR", "CHERRY", "BELL", "STAR", "CLOVER">>

\* the reel symbols in use: the configured array, or the default list
Symbols == IF reelSymbols = None THEN DefaultReelSymbols ELSE reelSymbols[1]

\* symbols[0] ?? '---'
FallbackSymbol == IF Len(Symbols) = 0 THEN "---" ELSE Symbols[1]

\* pickSymbol with getRandom returning randomValue
pickSymbol(randomValue) ==
    LET index == Min(Len(Symbols) - 1, (randomValue * Len(Symbols)) \div RandDen)
    IN  Symbols[index + 1]

\* the number of provider values pickSymbol consumes
PickSymbolDraws == IF Len(Symbols) = 0 THEN 0 ELSE 1

\* pickAlternativeSymbol(exclude): the first configured symbol other than exclude
pickAlternativeSymbol(exclude) ==
    IF Len(Symbols) = 0
    THEN "---"
    ELSE IF \E k \in 1 .. Len(Symbols) : Symbols[k] # exclude
    THEN Symbols[CHOOSE k \in 1 .. Len(Symbols) :
                     /\ Symbols[k] # exclude
                     /\ \A j \in 1 .. (k - 1) : Symbols[j] = exclude]
    ELSE FallbackSymbol

AllSameNever(first, second, third) == FALSE

\* first === second && second === third
AllSame(first, second, third) == first = second /\ second = third

ReachThirdClashNever(first, third) == FALSE

\* third === first
ReachThirdClash(first, third) == third = first

\* the steps of a sequence showing first, second, third
Steps(first, second, third, triggerReach) ==
    << [symbol |-> first, triggerReach |-> FALSE, isFinal |-> FALSE],
       [symbol |-> second, triggerReach |-> triggerReach, isFinal |-> FALSE],
       [symbol |-> third, triggerReach |-> FALSE, isFinal |-> TRUE] >>

\* buildReelSequence(result) with the provider returning tape[1], tape[2], ...:
\* the steps returned and the provider values consumed
buildReelSequence(result, tape) ==
    IF result.isWin
    THEN LET winSymbol == IF result.isRush THEN "RUSH" ELSE "WIN"
         IN  [sequence |-> Steps(winSymbol, winSymbol, winSymbol, TRUE), used |-> <<>>]
    ELSE LET n == PickSymbolDraws
             first == IF n = 0 THEN "---" ELSE pickSymbol(getRandom(tape[1]))
             second == IF n = 0 THEN "---" ELSE pickSymbol(getRandom(tape[2]))
             third == IF n = 0 THEN "---" ELSE pickSymbol(getRandom(tape[3]))
             chance == ClampRate(reachChance)
             reachDraws == IF chance > 0 THEN 1 ELSE 0
             triggerReach == IF chance > 0
                             THEN getRandom(tape[3 * n + 1]) < chance
                             ELSE FALSE
             used == SubSeq(tape, 1, 3 * n + reachDraws)
         IN  IF triggerReach
             THEN [sequence |->
                       Steps(first, first,
                             IF ReachThirdClash(first, third)
                             THEN pickAlternativeSymbol(first) ELSE third,
                             TRUE),
                   used |-> used]
             ELSE IF AllSame(first, second, third)
             THEN [sequence |-> Steps(first, second, pickAlternativeSymbol(second), FALSE),
                   used |-> used]
             ELSE [sequence |-> Steps(first, second, third, FALSE), used |-> used]

\* the lists of reel symbols of the runs: absent, empty, one symbol, repeated symbols
ReelSymbolLists ==
    {None} \cup {Some(list) : list \in UNION {[1 .. n -> {"A", "B"}] : n \in 0 .. MaxSymbols}}

\* provider values of the runs: draws of 0, 0.5 and the largest of the grid
ReelProviderValues == {0, HalfDen, RandDen - 1}

\* the outcomes passed to buildReelSequence: a miss, a win, a rush
ReelOutcomes ==
    {MissOutcome,
     [isWin |-> TRUE, reward |-> 1, isRush |-> FALSE],
     [isWin |-> TRUE, reward |-> MaxReward, isRush |-> TRUE]}

InitReel ==
    /\ reelSymbols \in ReelSymbolLists
    /\ reachChance \in {None, Some(0), Some(HalfDen), Some(RandDen + 1)}
    /\ outcomeArg = MissOutcome
    /\ reelSequence = <<>>
    /\ randomScript \in Scripts(ReelProviderValues, ReelScriptLen)
    /\ pockets = DefaultPockets
    /\ hitRate = Some(HalfDen)
    /\ rushRate = Some(HalfDen)
    /\ rushRewardMultiplier = Some(1)
    /\ initialCredits = DefaultInitialCredits
    /\ ballCost = DefaultBallCost
    /\ maxLogItems = DefaultMaxLogItems
    /\ hasBoard = TRUE
    /\ animationDuration = DefaultAnimationDuration
    /\ ballCanListen = TRUE
    /\ credits = initialCredits
    /\ ballCount = 0
    /\ isDropping = FALSE
    /\ lastOutcome = None
    /\ eventLog = <<>>
    /\ shootDisabled = FALSE
    /\ lastResult = NoResult
    /\ balls = <<>>
    /\ elements = AllElements
    /\ pocketsIsArray = TRUE
    /\ instance = "constructed"
    /\ logged = <<>>
    /\ NoSlot
    /\ NoPlay
    /\ NoCall

\* a call of buildReelSequence(result)
CallBuildReelSequence ==
    \E result \in ReelOutcomes :
        LET res == buildReelSequence(result, randomScript \o <<0, 0, 0, 0>>)
        IN  /\ Len(res.used) <= Len(randomScript)
            /\ lastOp' = "buildReelSequence"
            /\ outcomeArg' = result
            /\ reelSequence' = res.sequence
            /\ provided' = res.used
            /\ drawn' = [k \in 1 .. Len(res.used) |-> getRandom(res.used[k])]
            /\ randomScript' = Rest(randomScript, Len(res.used))
            /\ UNCHANGED <<pocketArg, picked, outcome, configVars, gameConfigVars, gameVars,
                           setupVars, logged, slotVars, reelSymbols, reachChance, playVars>>

NextReel == CallBuildReelSequence

SpecReel == InitReel /\ [][NextReel]_vars

----------------------------------------------------------------------------
(* The reel-sequence variant mounted (src/unnamed/part_001): the game with  *)
(* its three reels.  finalizeDrop plays each outcome on the reels; the      *)
(* steps of a played sequence are the jobs of a promise chain: a step       *)
(* starts in a microtask, which runs before any other event, and ends       *)
(* either in the same job (reelSpinDuration 0) or when its timer fires.     *)
(* All reel timers have the same delay, so they fire in the order they      *)
(* were set.                                                                *)

MaxChains == 2
PlayScriptLen == 6

\* renderReels: `index < 3`
ReelCount == 3

ReelOfReversed(index) == ReelCount + 1 - index

\* this.reels[index]: the reel of the step at `index` of the sequence
ReelOf(index) == index

\* a reel as renderReels and resetReels leave it
IdleReel == [isSpinning |-> FALSE, symbol |-> "---", isWin |-> FALSE, isRush |-> FALSE]

\* renderReels with a reel container
renderReels == [index \in 1 .. ReelCount |-> IdleReel]

\* the reels after resetReels, before its showReach(false)
resetReels(els) == [index \in 1 .. Len(els) |-> IdleReel]

\* targetReel.classList.add(outcome.isRush ? 'is-rush' : 'is-win')
Mark(el, result) ==
    IF result.isRush THEN [el EXCEPT !.isRush = TRUE] ELSE [el EXCEPT !.isWin = TRUE]

\* step.isFinal && outcome.isWin
MarksAtStop(step, result) == step.isFinal /\ result.isWin

\* step.triggerReach
ReachAtStop(step) == step.triggerReach

\* showReach(isVisible), with the reach display present
showReach(isVisible) ==
    /\ reachVisible' = isVisible
    /\ reachTimeout' = (isVisible /\ Max(0, reachHoldDuration) > 0)

\* no step of a chain is about to start: the microtask queue is empty
NoMicrotask == \A k \in 1 .. Len(chains) : chains[k].waiting # "microtask"

\* the sequence playReelSequence(result) builds, and the provider values it consumes
PlayedSequence(result, tape) ==
    IF Len(reelElements) = 0
    THEN [sequence |-> <<>>, used |-> <<>>]
    ELSE buildReelSequence(result, tape)

\* playReelSequence(result), up to the creation of the promise chain
playReelSequence(result, sequence) ==
    IF Len(reelElements) = 0
    THEN UNCHANGED <<reelElements, reachVisible, reachTimeout, chains, outcomeArg, reelSequence>>
    ELSE /\ Len(chains) < MaxChains
         /\ reelElements' = [index \in 1 .. Len(reelElements) |->
                                [reelElements[index] EXCEPT !.isWin = FALSE, !.isRush = FALSE]]
         /\ showReach(FALSE)
         /\ chains' = Append(chains, [sequence |-> sequence, result |-> result, index |-> 1,
                                      waiting |-> "microtask", order |-> <<>>])
         /\ outcomeArg' = result
         /\ reelSequence' = sequence

\* `finish` of the current step of chain c, the reels being els and the
\* other chains being others; started: the reel the same job started (0: none)
finish(c, els, others, started) ==
    LET step == c.sequence[c.index]
        reel == ReelOf(c.index)
        stopped == [els EXCEPT ![reel] = [@ EXCEPT !.isSpinning = FALSE, !.symbol = step.symbol]]
        order == Append(c.order, reel)
        last == c.index >= Len(c.sequence)
    IN  /\ reelElements' = (IF MarksAtStop(step, c.result)
                            THEN [index \in 1 .. Len(stopped) |-> Mark(stopped[index], c.result)]
                            ELSE stopped)
        /\ IF ReachAtStop(step)
           THEN showReach(TRUE)
           ELSE UNCHANGED <<reachVisible, reachTimeout>>
        /\ chains' = (IF last
                      THEN others
                      ELSE Append(others, [c EXCEPT !.index = @ + 1, !.waiting = "microtask",
                                                    !.order = order]))
        /\ lastStep' = [started |-> started, stopped |-> reel, completed |-> last,
                        order |-> order, sequence |-> c.sequence, result |-> c.result]

\* finalizeDrop(pocket) of the variant, entered with the credits `have` and the
\* log `log`, after `before` provider values were consumed in the same handler
playFinalizeDrop(pocket, have, log, before) ==
    LET rest == Rest(randomScript, before)
        res == resolvePocketOutcome(pockets[pocket], rest \o <<0, 0>>)
        played == PlayedSequence(res.outcome, Rest(rest, Len(res.used)) \o <<0, 0, 0, 0>>)
        total == before + Len(res.used) + Len(played.used)
    IN  /\ total <= Len(randomScript)
        /\ credits' = (IF res.outcome.reward > 0 THEN have + res.outcome.reward ELSE have)
        /\ isDropping' = FALSE
        /\ shootDisabled' = FALSE
        /\ lastOutcome' = Some(res.outcome)
        /\ lastResult' = [pocket |-> pocket, text |-> ResultKind(res.outcome)]
        /\ playReelSequence(res.outcome, played.sequence)
        /\ eventLog' = addLog(log, ResultKind(res.outcome))
        /\ pocketArg' = pocket
        /\ outcome' = res.outcome
        /\ provided' = SubSeq(randomScript, 1, total)
        /\ drawn' = [k \in 1 .. total |-> getRandom(randomScript[k])]
        /\ randomScript' = Rest(randomScript, total)

\* handleShoot of the variant accepted
PlayShootAccepted ==
    /\ ~isDropping
    /\ ~Insufficient(credits, ballCost)
    /\ LET charged == Charge(credits, ballCost)
           pick == pickPocket(pockets, randomScript \o <<0>>)
           log == addLog(eventLog, "shoot")
       IN  /\ Len(pick.used) <= Len(randomScript)
           /\ ballCount' = ballCount + 1
           /\ picked' = pick.pocket
           /\ IF FinalizesImmediately
              THEN /\ playFinalizeDrop(pick.pocket, charged, log, Len(pick.used))
                   /\ UNCHANGED <<balls, ballDraws>>
              ELSE /\ credits' = charged
                   /\ isDropping' = TRUE
                   /\ shootDisabled' = TRUE
                   /\ eventLog' = log
                   /\ balls' = Append(balls, pick.pocket)
                   /\ ballDraws' = Append(ballDraws, Len(randomScript) - Len(pick.used))
                   /\ pocketArg' = 0
                   /\ outcome' = MissOutcome
                   /\ provided' = pick.used
                   /\ drawn' = [k \in 1 .. Len(pick.used) |-> getRandom(pick.used[k])]
                   /\ randomScript' = Rest(randomScript, Len(pick.used))
                   /\ UNCHANGED <<lastOutcome, lastResult, reelElements, reachVisible,
                                  reachTimeout, chains, outcomeArg, reelSequence>>

\* a click on the shoot button of the variant
PlayHandleShoot ==
    /\ instance = "mounted"
    /\ NoMicrotask
    /\ lastOp' = "handleShoot"
    /\ lastStep' = NoStep
    /\ \/ /\ ShootWhileDropping
          /\ UNCHANGED <<reelElements, reachVisible, reachTimeout, chains, ballDraws,
                         outcomeArg, reelSequence>>
       \/ /\ ShootInsufficient
          /\ UNCHANGED <<reelElements, reachVisible, reachTimeout, chains, ballDraws,
                         outcomeArg, reelSequence>>
       \/ PlayShootAccepted
    /\ UNCHANGED <<configVars, gameConfigVars, setupVars, logged, slotVars, reelSymbols,
                   reachChance, reelSpinDuration, reachHoldDuration>>

\* the animationend event of the ball launched first among those on the board
PlayAnimationEnd ==
    /\ instance = "mounted"
    /\ NoMicrotask
    /\ balls # <<>>
    /\ lastOp' = "animationEnd"
    /\ lastStep' = NoStep
    /\ playFinalizeDrop(Head(balls), credits, eventLog, 0)
    /\ balls' = Tail(balls)
    /\ ballDraws' = Tail(ballDraws)
    /\ picked' = 0
    /\ UNCHANGED <<ballCount, configVars, gameConfigVars, setupVars, logged, slotVars,
                   reelSymbols, reachChance, reelSpinDuration, reachHoldDuration>>

\* a click on the reset button of the variant: the reach timer is cleared
\* and the reels are reset; neither the balls nor the chains are touched
PlayHandleReset ==
    /\ instance = "mounted"
    /\ NoMicrotask
    /\ lastOp' = "handleReset"
    /\ lastStep' = NoStep
    /\ credits' = initialCredits
    /\ ballCount' = 0
    /\ isDropping' = FALSE
    /\ lastResult' = [pocket |-> 0, text |-> "---"]
    /\ shootDisabled' = FALSE
    /\ reelElements' = resetReels(reelElements)
    /\ reachTimeout' = FALSE
    /\ reachVisible' = (IF Len(reelElements) = 0 THEN reachVisible ELSE FALSE)
    /\ eventLog' = addLog(<<>>, "reset")
    /\ picked' = 0
    /\ pocketArg' = 0
    /\ outcome' = MissOutcome
    /\ provided' = <<>>
    /\ drawn' = <<>>
    /\ UNCHANGED <<lastOutcome, balls, ballDraws, chains, randomScript, configVars,
                   gameConfigVars, setupVars, logged, slotVars, reelVars, reelSpinDuration,
                   reachHoldDuration>>

\* what a job of a promise chain or a timer leaves alone
PlayFrame ==
    /\ picked' = 0
    /\ pocketArg' = 0
    /\ outcome' = MissOutcome
    /\ provided' = <<>>
    /\ drawn' = <<>>
    /\ UNCHANGED <<randomScript, configVars, gameConfigVars, gameVars, setupVars, logged,
                   slotVars, reelVars, reelSpinDuration, reachHoldDuration, ballDraws>>

\* duration <= 0, duration being Math.max(0, this.config.reelSpinDuration ?? 0)
SpinsNot == Max(0, reelSpinDuration) <= 0

\* the microtask of a chain that starts its current step: the reel spins,
\* and stops in the same job when the spin has no duration
ReelStepStart ==
    /\ instance = "mounted"
    /\ chains # <<>>
    /\ chains[Len(chains)].waiting = "microtask"
    /\ lastOp' = "reelStepStart"
    /\ LET c == chains[Len(chains)]
           others == SubSeq(chains, 1, Len(chains) - 1)
           reel == ReelOf(c.index)
           spun == [reelElements EXCEPT
                        ![reel] = [@ EXCEPT !.isSpinning = TRUE, !.symbol = ""]]
       IN  IF SpinsNot
           THEN finish(c, spun, others, reel)
           ELSE /\ reelElements' = spun
                /\ chains' = Append(others, [c EXCEPT !.waiting = "timeout"])
                /\ lastStep' = [started |-> reel, stopped |-> 0, completed |-> FALSE,
                                order |-> c.order, sequence |-> c.sequence,
                                result |-> c.result]
                /\ UNCHANGED <<reachVisible, reachTimeout>>
    /\ PlayFrame

\* the timer of a spinning reel fires: the one set first
ReelTimeout ==
    /\ instance = "mounted"
    /\ NoMicrotask
    /\ chains # <<>>
    /\ lastOp' = "reelTimeout"
    /\ finish(Head(chains), reelElements, Tail(chains), 0)
    /\ PlayFrame

\* the timer of showReach fires: showReach(false)
ReachTimeout ==
    /\ instance = "mounted"
    /\ NoMicrotask
    /\ reachTimeout
    /\ lastOp' = "reachTimeout"
    /\ lastStep' = NoStep
    /\ showReach(FALSE)
    /\ UNCHANGED <<reelElements, chains>>
    /\ PlayFrame

\* the state after mountPachinko of the variant, with or without a reel container
InitPlay ==
    /\ pockets = << [reward |-> Some(1), rushReward |-> Some(MaxReward), weight |-> Some(1)],
                    [reward |-> Some(0), rushReward |-> None, weight |-> Some(1)] >>
    /\ hitRate = Some(HalfDen)
    /\ rushRate = Some(HalfDen)
    /\ rushRewardMultiplier = Some(MaxReward)
    /\ randomScript \in Scripts(GameProviderValues, PlayScriptLen)
    /\ initialCredits = MaxCredits
    /\ ballCost = DefaultBallCost
    /\ maxLogItems = 1
    /\ hasBoard = TRUE
    /\ animationDuration \in {0, DefaultAnimationDuration}
    /\ ballCanListen = TRUE
    /\ credits = initialCredits
    /\ ballCount = 0
    /\ isDropping = FALSE
    /\ lastOutcome = None
    /\ eventLog = addLog(<<>>, "init")
    /\ shootDisabled = FALSE
    /\ lastResult = NoResult
    /\ balls = <<>>
    /\ elements = AllElements
    /\ pocketsIsArray = TRUE
    /\ instance = "mounted"
    /\ logged = <<>>
    /\ NoSlot
    /\ reelSymbols = Some(<<"A", "B">>)
    /\ reachChance \in {Some(0), Some(HalfDen)}
    /\ outcomeArg = MissOutcome
    /\ reelSequence = <<>>
    /\ reelSpinDuration \in {0, DefaultReelSpinDuration}
    /\ reachHoldDuration \in {0, DefaultReachHoldDuration}
    /\ reelElements \in {<<>>, renderReels}
    /\ reachVisible = FALSE
    /\ reachTimeout = FALSE
    /\ chains = <<>>
    /\ ballDraws = <<>>
    /\ lastStep = NoStep
    /\ NoCall

NextPlay ==
    \/ PlayHandleShoot
    \/ PlayAnimationEnd
    \/ PlayHandleReset
    \/ ReelStepStart
    \/ ReelTimeout
    \/ ReachTimeout

SpecPlay == InitPlay /\ [][NextPlay]_vars

----------------------------------------------------------------------------
(* addLog called on its own, any number of times up to the horizon, for     *)
(* any limit of the log                                                     *)

MaxLogged == 4

LogMessages == {"shoot", "win", "miss"}

InitLog ==
    /\ pockets = DefaultPockets
    /\ hitRate = Some(HalfDen)
    /\ rushRate = Some(HalfDen)
    /\ rushRewardMultiplier = Some(1)
    /\ randomScript = <<>>
    /\ initialCredits = DefaultInitialCredits
    /\ ballCost = DefaultBallCost
    /\ maxLogItems \in 0 .. MaxLogItems
    /\ hasBoard = TRUE
    /\ animationDuration = DefaultAnimationDuration
    /\ ballCanListen = TRUE
    /\ credits = initialCredits
    /\ ballCount = 0
    /\ isDropping = FALSE
    /\ lastOutcome = None
    /\ eventLog = <<>>
    /\ shootDisabled = FALSE
    /\ lastResult = NoResult
    /\ balls = <<>>
    /\ elements = AllElements
    /\ pocketsIsArray = TRUE
    /\ instance = "constructed"
    /\ logged = <<>>
    /\ NoSlot
    /\ NoReels
    /\ NoPlay
    /\ NoCall

\* a call of addLog(message)
CallAddLog ==
    \E message \in LogMessages :
        /\ Len(logged) < MaxLogged
        /\ lastOp' = "addLog"
        /\ eventLog' = addLog(eventLog, message)
        /\ logged' = Append(logged, message)
        /\ UNCHANGED <<pocketArg, picked, outcome, provided, drawn, randomScript,
                       configVars, gameConfigVars, credits, ballCount, isDropping,
                       lastOutcome, shootDisabled, lastResult, balls, setupVars, slotVars,
                       reelVars, playVars>>

NextLog == CallAddLog

SpecLog == InitLog /\ [][NextLog]_vars

----------------------------------------------------------------------------
(* Properties of addLog, checked under SpecLog *)

\* C24: after any sequence of addLog calls the event log holds at most
\* maxLogItems entries, ordered newest first, and they are exactly the most
\* recent messages: each insertion beyond the limit drops the oldest entry.
C24_MostRecentFirst ==
    LET kept == IF Len(logged) <= maxLogItems THEN Len(logged) ELSE maxLogItems
    IN  /\ Len(eventLog) <= maxLogItems
        /\ Len(eventLog) = kept
        /\ \A k \in 1 .. kept : eventLog[k] = logged[Len(logged) - k + 1]

\* more messages than the limit, the two newest kept and distinct
C24_Witness ==
    /\ lastOp = "addLog"
    /\ maxLogItems >= 2
    /\ Len(logged) > maxLogItems + 1
    /\ Len(eventLog) = maxLogItems
    /\ eventLog[1] # eventLog[2]
    /\ eventLog[1] = logged[Len(logged)]

----------------------------------------------------------------------------
(* Properties of pickPocket, checked under SpecPick *)

\* the weight a pocket counts for: max(weight, 0), an absent weight counting 1
EffectiveWeight(pocket) ==
    IF pocket.weight = None
    THEN 1
    ELSE IF pocket.weight[1] > 0 THEN pocket.weight[1] ELSE 0

RECURSIVE RunningSum(_, _)
\* the running sum of the effective weights of the first k pockets
RunningSum(pks, k) ==
    IF k = 0 THEN 0 ELSE RunningSum(pks, k - 1) + EffectiveWeight(pks[k])

TotalWeight == RunningSum(pockets, Len(pockets))

\* r * totalWeight < the running sum at pocket k, for the draw r = random / RandDen
Exceeds(k, random) == random * TotalWeight < RunningSum(pockets, k) * RandDen

\* C1: when the total clamped weight is positive, pickPocket returns the first
\* pocket in sequence order whose running sum of clamped weights is strictly
\* greater than r * totalWeight, r being the normalized draw; a target equal to
\* a cumulative boundary goes to the next pocket.
C1_FirstExceeding ==
    (lastOp = "pickPocket" /\ TotalWeight > 0) =>
        /\ Len(drawn) = 1
        /\ picked \in 1 .. Len(pockets)
        /\ Exceeds(picked, drawn[1])
        /\ \A j \in 1 .. (picked - 1) : ~Exceeds(j, drawn[1])

\* a draw whose target is exactly the running sum at the pocket before the one returned
C1_Witness ==
    /\ lastOp = "pickPocket"
    /\ TotalWeight > 0
    /\ picked > 1
    /\ Len(drawn) = 1
    /\ drawn[1] * TotalWeight = RunningSum(pockets, picked - 1) * RandDen
    /\ EffectiveWeight(pockets[picked - 1]) > 0

HasDefaultWeights ==
    /\ Len(pockets) = 5
    /\ [i \in 1 .. 5 |-> pockets[i].weight] = <<Some(1), Some(2), Some(3), Some(3), Some(5)>>

\* C2 as stated: weights [1,2,3,3,5] and a random source fixed at 0.5 select the
\* entry at index 2 (indices counted from 0).
C2_Index2 ==
    (lastOp = "pickPocket" /\ HasDefaultWeights /\ provided = <<HalfDen>>) =>
        picked - 1 = 2

\* C2 amended: weights [1,2,3,3,5] and a random source fixed at 0.5 (target 7,
\* cumulative sums 1,3,6,9,14) select the entry at index 3 (counted from 0), the
\* first whose cumulative sum 9 exceeds 7.
C2_Index3 ==
    (lastOp = "pickPocket" /\ HasDefaultWeights /\ provided = <<HalfDen>>) =>
        picked - 1 = 3

C2_Witness ==
    /\ lastOp = "pickPocket"
    /\ HasDefaultWeights
    /\ provided = <<HalfDen>>
    /\ drawn[1] * TotalWeight = 7 * RandDen
    /\ picked = 4

AllWeightsZero ==
    \A i \in 1 .. Len(pockets) : pockets[i].weight # None /\ pockets[i].weight[1] <= 0

\* C3: if every pocket's weight is 0 (or clamps to 0), pickPocket returns the
\* first pocket of the sequence, whatever the random source would return.
C3_ZeroWeightFallback ==
    (lastOp = "pickPocket" /\ AllWeightsZero) => picked = 1

C3_Witness ==
    /\ lastOp = "pickPocket"
    /\ AllWeightsZero
    /\ Len(pockets) = MaxPockets
    /\ picked = 1

\* C4 as stated: every call of pickPocket consumes exactly one draw, for every
\* pocket configuration.
C4_AlwaysOneDraw ==
    lastOp = "pickPocket" => Len(provided) = 1

\* C4 amended: a call of pickPocket consumes exactly one draw when the total
\* clamped weight is positive, and no draw at all when it is not.
C4_OneDrawUnlessDegenerate ==
    lastOp = "pickPocket" =>
        Len(provided) = (IF TotalWeight > 0 THEN 1 ELSE 0)

C4_Witness ==
    /\ lastOp = "pickPocket"
    /\ TotalWeight <= 0
    /\ provided = <<>>
    /\ picked = 1

\* C5: when the total clamped weight is positive, a pocket whose weight is 0 or
\* negative is never returned, for any draw and any position of that pocket.
C5_ZeroWeightNeverPicked ==
    (lastOp = "pickPocket" /\ TotalWeight > 0) =>
        EffectiveWeight(pockets[picked]) > 0

\* zero-weight pockets first and last, the largest draw of the grid
C5_Witness ==
    /\ lastOp = "pickPocket"
    /\ Len(pockets) = 3
    /\ EffectiveWeight(pockets[1]) = 0
    /\ EffectiveWeight(pockets[3]) = 0
    /\ drawn = <<RandDen - 1>>
    /\ picked = 2

----------------------------------------------------------------------------
(* Properties of the draws, checked under SpecDraws *)

\* a provider value brought into [0,1): its absolute value less its integer part
Normalized(value) == (IF value < 0 THEN -value ELSE value) % RandDen

\* C23: getRandom maps every finite value returned by the random provider
\* (negative, >= 1, or exactly an integer) to |value| - floor(|value|), so every
\* draw used by the selector and the resolver lies in [0,1); each decision uses
\* its own fresh draw: the draws of a call are the next values of the provider,
\* one call of the provider per draw, and a value consumed is never used again.
C23_FreshNormalizedDraws ==
    [][lastOp' \in {"pickPocket", "resolvePocketOutcome"} =>
          /\ Len(drawn') = Len(provided')
          /\ provided' = SubSeq(randomScript, 1, Len(provided'))
          /\ randomScript' = SubSeq(randomScript, Len(provided') + 1, Len(randomScript))
          /\ \A k \in 1 .. Len(drawn') :
                 /\ drawn'[k] = Normalized(provided'[k])
                 /\ drawn'[k] >= 0
                 /\ drawn'[k] < RandDen
      ]_vars

\* a hit roll on a negative provider value and a rush roll on a value above 1,
\* after the selector consumed the value before them
C23_Witness ==
    /\ lastOp = "resolvePocketOutcome"
    /\ Len(randomScript) = DrawsLen - 3
    /\ Len(provided) = 2
    /\ provided[1] < 0
    /\ provided[2] > RandDen
    /\ drawn[1] = 0 - provided[1]
    /\ drawn[2] = provided[2] - RandDen

----------------------------------------------------------------------------
(* Properties of resolvePocketOutcome, checked under SpecResolve *)

Resolved == lastOp = "resolvePocketOutcome"

\* the pocket the call was made on
ArgPocket == pockets[pocketArg]

\* the entry's reward, an absent reward counting 0
BaseReward == IF ArgPocket.reward = None THEN 0 ELSE ArgPocket.reward[1]

\* a rate brought into [0,1], an absent rate counting 0
RateInRange(rate) ==
    IF rate = None THEN 0
    ELSE IF rate[1] < 0 THEN 0
    ELSE IF rate[1] > RandDen THEN RandDen
    ELSE rate[1]

\* the multiplier brought to at least 1, an absent multiplier counting 1
MultiplierInRange ==
    IF rushRewardMultiplier = None THEN 1
    ELSE IF rushRewardMultiplier[1] < 1 THEN 1
    ELSE rushRewardMultiplier[1]

\* C6: on a pocket with reward <= 0 or no reward, resolvePocketOutcome returns
\* {isWin:false, isRush:false, reward:0} for every random source and every
\* probability configuration, and consumes no random draw.
C6_MissGate ==
    (Resolved /\ BaseReward <= 0) =>
        /\ outcome = [isWin |-> FALSE, reward |-> 0, isRush |-> FALSE]
        /\ provided = <<>>
        /\ drawn = <<>>

\* a zero-reward pocket under rates that would make every draw a rush win
C6_Witness ==
    /\ Resolved
    /\ ArgPocket.reward = Some(0)
    /\ RateInRange(hitRate) = RandDen
    /\ RateInRange(rushRate) = RandDen
    /\ outcome.reward = 0
    /\ ~outcome.isWin
    /\ provided = <<>>

\* C7: for a pocket with reward > 0 and clamped hitRate h in (0,1], the round is
\* a win exactly when the hit draw r1 satisfies r1 < h; a draw r1 >= h, r1 = h
\* included, yields {isWin:false, isRush:false, reward:0}.
C7_HitBoundary ==
    (Resolved /\ BaseReward > 0 /\ RateInRange(hitRate) > 0) =>
        /\ Len(drawn) >= 1
        /\ outcome.isWin <=> drawn[1] < RateInRange(hitRate)
        /\ drawn[1] >= RateInRange(hitRate) =>
               outcome = [isWin |-> FALSE, reward |-> 0, isRush |-> FALSE]

\* hitRate 0.5 and a hit draw of exactly 0.5: a miss
C7_Witness ==
    /\ Resolved
    /\ BaseReward > 0
    /\ hitRate = Some(HalfDen)
    /\ drawn = <<HalfDen>>
    /\ ~outcome.isWin
    /\ outcome.reward = 0

\* C8: given a hit, isRush is true exactly when the second draw r2 satisfies
\* r2 < clamp(rushRate, 0, 1); the rush draw is made only after the hit roll
\* succeeded.
C8_RushRoll ==
    Resolved =>
        /\ outcome.isWin =>
               /\ Len(drawn) = 2
               /\ outcome.isRush <=> drawn[2] < RateInRange(rushRate)
        /\ Len(drawn) = 2 =>
               /\ outcome.isWin
               /\ drawn[1] < RateInRange(hitRate)
        /\ ~outcome.isWin => ~outcome.isRush

\* rushRate 0.5, a rush draw of exactly 0.5: a hit that is no rush
C8_Witness ==
    /\ Resolved
    /\ outcome.isWin
    /\ ~outcome.isRush
    /\ rushRate = Some(HalfDen)
    /\ Len(drawn) = 2
    /\ drawn[2] = HalfDen

\* C9: a hit that is not a rush pays exactly entry.reward (never rushReward and
\* never the multiplied amount), and a miss pays 0.
C9_PlainHitPaysBase ==
    Resolved =>
        /\ (outcome.isWin /\ ~outcome.isRush) => outcome.reward = BaseReward
        /\ ~outcome.isWin => outcome.reward = 0

\* a plain hit on a pocket whose rushReward and multiplied reward both differ
\* from its reward
C9_Witness ==
    /\ Resolved
    /\ outcome.isWin
    /\ ~outcome.isRush
    /\ ArgPocket.rushReward # None
    /\ ArgPocket.rushReward[1] > BaseReward
    /\ MultiplierInRange > 1
    /\ outcome.reward = BaseReward

\* C10 as stated: for a rush outcome, whenever the entry defines rushReward (any
\* non-negative integer, 0 included) the paid reward is max(rushReward, reward);
\* only when rushReward is absent is it reward * max(rushRewardMultiplier, 1).
C10_DefinedRushReward ==
    (Resolved /\ outcome.isRush) =>
        outcome.reward =
            (IF ArgPocket.rushReward # None
             THEN (IF ArgPocket.rushReward[1] >= BaseReward
                   THEN ArgPocket.rushReward[1]
                   ELSE BaseReward)
             ELSE BaseReward * MultiplierInRange)

\* C10 amended: for a rush outcome, when the entry's rushReward is defined and
\* not 0 the paid reward is max(rushReward, reward); when rushReward is absent
\* or 0 the paid reward is reward * max(rushRewardMultiplier, 1).
C10_TruthyRushReward ==
    (Resolved /\ outcome.isRush) =>
        outcome.reward =
            (IF ArgPocket.rushReward # None /\ ArgPocket.rushReward[1] # 0
             THEN (IF ArgPocket.rushReward[1] >= BaseReward
                   THEN ArgPocket.rushReward[1]
                   ELSE BaseReward)
             ELSE BaseReward * MultiplierInRange)

\* a rush on a pocket with rushReward 0 under a multiplier above 1
C10_Witness ==
    /\ Resolved
    /\ outcome.isRush
    /\ ArgPocket.rushReward = Some(0)
    /\ MultiplierInRange > 1
    /\ outcome.reward = BaseReward * MultiplierInRange
    /\ outcome.reward > BaseReward

\* C11: for every entry and every probability configuration, rushReward below
\* reward and a multiplier below 1 included, the reward of a rush outcome is
\* never less than the entry's base reward.
C11_RushFloor ==
    (Resolved /\ outcome.isRush) => outcome.reward >= BaseReward

\* a rush on a pocket whose non-zero rushReward is below its reward
C11_Witness ==
    /\ Resolved
    /\ outcome.isRush
    /\ ArgPocket.rushReward # None
    /\ ArgPocket.rushReward[1] > 0
    /\ ArgPocket.rushReward[1] < BaseReward
    /\ outcome.reward = BaseReward

\* the number of draws the claim gives a call, from the entry, the rates and
\* the first draw
ExpectedDraws ==
    IF BaseReward <= 0 \/ RateInRange(hitRate) <= 0 THEN 0
    ELSE IF drawn[1] >= RateInRange(hitRate) THEN 1
    ELSE 2

\* C12: one call of resolvePocketOutcome consumes exactly 0, 1 or 2 draws: 0
\* when reward <= 0 or the clamped hitRate is <= 0, exactly 1 when the hit roll
\* fails (the rush roll is never drawn), exactly 2 when it succeeds; the draws
\* are the next values of the provider in order, the hit roll the earlier one
\* and the rush roll the later one.
C12_DrawCountAndOrder ==
    [][Resolved' =>
          /\ Len(provided') = ExpectedDraws'
          /\ provided' = SubSeq(randomScript, 1, Len(provided'))
          /\ randomScript' = SubSeq(randomScript, Len(provided') + 1, Len(randomScript))
          /\ Len(drawn') >= 1 =>
                 (outcome'.isWin <=> drawn'[1] < RateInRange(hitRate'))
          /\ Len(drawn') = 2 =>
                 (outcome'.isRush <=> drawn'[2] < RateInRange(rushRate'))
      ]_vars

\* a failed hit roll: one draw consumed, the value after it still in the script
C12_Witness ==
    /\ Resolved
    /\ BaseReward > 0
    /\ Len(provided) = 1
    /\ Len(randomScript) = 1
    /\ drawn[1] >= RateInRange(hitRate)
    /\ ~outcome.isWin

\* the resolver on in-domain parameters (h and r in [0,1], m >= 1), the provider
\* returning script[1], script[2], ...: the outcome and the values consumed
InDomainResolve(pocket, h, r, m, script) ==
    LET base == IF pocket.reward = None THEN 0 ELSE pocket.reward[1]
        rushPay == IF pocket.rushReward # None /\ pocket.rushReward[1] # 0
                   THEN (IF pocket.rushReward[1] >= base THEN pocket.rushReward[1] ELSE base)
                   ELSE base * m
    IN  IF base <= 0 \/ h = 0
        THEN [outcome |-> [isWin |-> FALSE, reward |-> 0, isRush |-> FALSE], used |-> <<>>]
        ELSE IF Normalized(script[1]) >= h
        THEN [outcome |-> [isWin |-> FALSE, reward |-> 0, isRush |-> FALSE],
              used |-> <<script[1]>>]
        ELSE IF Normalized(script[2]) < r
        THEN [outcome |-> [isWin |-> TRUE, reward |-> rushPay, isRush |-> TRUE],
              used |-> <<script[1], script[2]>>]
        ELSE [outcome |-> [isWin |-> TRUE, reward |-> base, isRush |-> FALSE],
              used |-> <<script[1], script[2]>>]

\* C22: resolvePocketOutcome with hitRate, rushRate or rushRewardMultiplier
\* outside their domains returns the same Outcome and consumes the same draws
\* as with hitRate and rushRate clamped to [0,1] and the multiplier clamped to
\* >= 1; hitRate <= 0 always misses without a draw, hitRate >= 1 always hits
\* (on a paying pocket), rushRate >= 1 makes every hit a rush.
C22_ClampedEquivalent ==
    [][Resolved' =>
          LET ref == InDomainResolve(pockets[pocketArg'], RateInRange(hitRate),
                                     RateInRange(rushRate), MultiplierInRange,
                                     randomScript)
          IN  /\ outcome' = ref.outcome
              /\ provided' = ref.used
              /\ (hitRate # None /\ hitRate[1] <= 0) =>
                     (~outcome'.isWin /\ provided' = <<>>)
              /\ (hitRate # None /\ hitRate[1] >= RandDen /\ BaseReward' > 0) =>
                     outcome'.isWin
              /\ (rushRate # None /\ rushRate[1] >= RandDen /\ outcome'.isWin) =>
                     outcome'.isRush
      ]_vars

\* both rates above 1 and a multiplier of 0: a rush that pays the base reward
C22_Witness ==
    /\ Resolved
    /\ hitRate = Some(RandDen + 1)
    /\ rushRate = Some(RandDen + 1)
    /\ rushRewardMultiplier = Some(0)
    /\ ArgPocket.rushReward = None
    /\ BaseReward = MaxReward
    /\ outcome.isRush
    /\ outcome.reward = BaseReward

----------------------------------------------------------------------------
(* Properties of the game, checked under Spec *)

\* handleShoot finds no ball dropping and the credits for a ball
Affordable == ~isDropping /\ credits >= ballCost

\* the log after one more message: the message, then the entries before it,
\* the oldest dropped beyond maxLogItems
LogGrewBy(messages) ==
    /\ Len(eventLog') = (IF Len(eventLog) + 1 > maxLogItems
                         THEN maxLogItems
                         ELSE Len(eventLog) + 1)
    /\ eventLog'[1] \in messages
    /\ \A k \in 2 .. Len(eventLog') : eventLog'[k] = eventLog[k - 1]

\* C14: handleShoot invoked while credits < ballCost is rejected: credits,
\* ballCount and isDropping are unchanged, no pocket is picked and no random
\* draw is consumed; only a log entry is added.
C14_InsufficientRejected ==
    [][(lastOp' = "handleShoot" /\ credits < ballCost) =>
          /\ credits' = credits
          /\ ballCount' = ballCount
          /\ isDropping' = isDropping
          /\ picked' = 0
          /\ pocketArg' = 0
          /\ provided' = <<>>
          /\ randomScript' = randomScript
          /\ balls' = balls
          /\ lastOutcome' = lastOutcome
          /\ lastResult' = lastResult
          /\ shootDisabled' = shootDisabled
          /\ LogGrewBy({"insufficient", "dropping"})
      ]_vars

\* a shot refused for lack of credits after an earlier shot was accepted
C14_Witness ==
    /\ lastOp = "handleShoot"
    /\ eventLog[1] = "insufficient"
    /\ credits < ballCost
    /\ ballCount > 0
    /\ picked = 0

\* C15: with initialCredits >= 0 and ballCost >= 0, credits is never negative in
\* any state reachable by handleShoot, animation-end/finalizeDrop and
\* handleReset events.
C15_CreditsNonNegative ==
    (initialCredits >= 0 /\ ballCost >= 0) => credits >= 0

\* the last credits spent on a ball
C15_Witness ==
    /\ lastOp = "handleShoot"
    /\ picked # 0
    /\ ballCost > 0
    /\ credits = 0
    /\ isDropping

\* C16: every accepted handleShoot (not dropping, credits >= ballCost) takes
\* exactly ballCost from credits (a reward credited by a finalizeDrop run within
\* the same call comes on top) and adds exactly 1 to ballCount; a rejected one
\* changes neither; handleReset zeroes ballCount and an animation end leaves it,
\* so ballCount is the number of accepted shots since the last reset.
C16_AcceptedShotsCounted ==
    [][/\ (lastOp' = "handleShoot" /\ Affordable) =>
              /\ ballCount' = ballCount + 1
              /\ picked' # 0
              /\ credits' = credits - ballCost
                            + (IF pocketArg' # 0 THEN outcome'.reward ELSE 0)
       /\ (lastOp' = "handleShoot" /\ ~Affordable) =>
              /\ ballCount' = ballCount
              /\ credits' = credits
       /\ lastOp' = "handleReset" => ballCount' = 0
       /\ lastOp' = "animationEnd" => ballCount' = ballCount
      ]_vars

\* a second accepted shot, finalized within the call with a reward
C16_Witness ==
    /\ lastOp = "handleShoot"
    /\ picked # 0
    /\ ballCount = 2
    /\ ballCost > 0
    /\ pocketArg # 0
    /\ outcome.reward > 0

\* C17: from any reachable state, handleReset sets credits to the configured
\* initialCredits, ballCount to 0 and isDropping to false, enables the shoot
\* button, sets the last-result display to '---' and leaves the event log with
\* exactly one entry, the reset message.
C17_ResetRestores ==
    lastOp = "handleReset" =>
        /\ credits = initialCredits
        /\ ballCount = 0
        /\ ~isDropping
        /\ ~shootDisabled
        /\ lastResult.text = "---"
        /\ eventLog = <<"reset">>

\* a reset while a ball is on the board, after an earlier round was finalized
C17_Witness ==
    /\ lastOp = "handleReset"
    /\ balls # <<>>
    /\ lastOutcome # None
    /\ credits = initialCredits
    /\ eventLog = <<"reset">>

\* C18 as stated: the wager charge and the reward credit of a round are applied
\* atomically: while a ball is charged and not yet finalized, no handleReset
\* occurs and no event other than that finalization changes the ledger.
C18_AtomicRound ==
    [][(balls # <<>> /\ lastOp' # "animationEnd") =>
          /\ lastOp' # "handleReset"
          /\ credits' = credits
          /\ ballCount' = ballCount
      ]_vars

\* C19 as stated: for every interleaving of handleShoot, handleReset and
\* animation-end callbacks there is never more than one ball that has been
\* charged but not yet finalized.
C19_AtMostOneBall ==
    Len(balls) <= 1

\* C20 as stated: the hit/rush draws are consumed and the Outcome is produced
\* within the handleShoot call that charged the wager, and an animation
\* callback fires only after the Outcome already exists (it resolves nothing
\* and draws nothing).
C20_ResolvedInShoot ==
    [][/\ (lastOp' = "handleShoot" /\ Affordable) => pocketArg' # 0
       /\ lastOp' = "animationEnd" => (pocketArg' = 0 /\ randomScript' = randomScript)
      ]_vars

\* C20 amended: the Outcome is produced by finalizeDrop.  When animateBall
\* finalizes within the call (no board, animationDuration 0, or a ball without
\* addEventListener) that is inside the handleShoot call that charged the
\* wager; otherwise handleShoot consumes at most the pocket-selection draw and
\* produces no Outcome, and the hit/rush draws are consumed and the Outcome is
\* produced in the ball's animationend callback.
C20_ResolvedAtFinalize ==
    [][/\ (lastOp' = "handleShoot" /\ Affordable
              /\ (~hasBoard \/ animationDuration = 0 \/ ~ballCanListen)) =>
              /\ pocketArg' = picked'
              /\ lastOutcome' = Some(outcome')
              /\ balls' = balls
       /\ (lastOp' = "handleShoot" /\ Affordable
              /\ hasBoard /\ animationDuration # 0 /\ ballCanListen) =>
              /\ pocketArg' = 0
              /\ lastOutcome' = lastOutcome
              /\ Len(provided') <= 1
              /\ balls' = Append(balls, picked')
       /\ lastOp' = "animationEnd" =>
              /\ pocketArg' = Head(balls)
              /\ lastOutcome' = Some(outcome')
              /\ balls' = Tail(balls)
      ]_vars

\* an animation callback that drew the hit roll and the rush roll
C20_Witness ==
    /\ lastOp = "animationEnd"
    /\ pocketArg # 0
    /\ Len(provided) = 2
    /\ outcome.isWin
    /\ lastOutcome = Some(outcome)

----------------------------------------------------------------------------
(* Properties of the slot machine, checked under SpecSlot *)

\* C25 as stated: handleBet raises bet by exactly 1 while bet < maxBet and
\* leaves the bet once the maximum is reached, so 0 <= bet <= maxBet in every
\* reachable state.
C25_RaiseBelowMax ==
    /\ [](0 <= bet /\ bet <= maxBet)
    /\ [][lastOp' = "handleBet" =>
              bet' = (IF bet < maxBet THEN bet + 1 ELSE bet)]_vars

\* C25 amended: handleBet raises bet by exactly 1 while bet < maxBet and
\* bet + 1 <= credits, and leaves the bet otherwise (at the maximum, or when
\* the credits do not cover one more), so 0 <= bet <= maxBet in every
\* reachable state.
C25_RaiseBelowMaxWithinCredits ==
    /\ [](0 <= bet /\ bet <= maxBet)
    /\ [][lastOp' = "handleBet" =>
              bet' = (IF bet < maxBet /\ bet + 1 <= credits THEN bet + 1 ELSE bet)]_vars

\* a bet below the maximum refused for lack of credits
C25_Witness ==
    /\ lastOp = "handleBet"
    /\ bet > 0
    /\ bet < maxBet
    /\ bet = credits
    /\ eventLog[1] = "insufficient"

\* C26: handleBet refuses to raise the bet above the available credits, so
\* bet <= credits holds in every state reachable by any sequence of handleBet,
\* handleSpin, stopReel and handleReset.
C26_BetWithinCredits ==
    bet <= credits

\* the bet raised to the last credit, after a spin spent some
C26_Witness ==
    /\ lastOp = "handleBet"
    /\ eventLog[1] = "bet"
    /\ bet = credits
    /\ credits > 0
    /\ credits < initialCredits

\* C27: handleSpin changes state only when no spin is in progress, bet > 0 and
\* credits >= bet; it then lowers credits by exactly the bet, resets bet to 0
\* and starts every reel spinning; when any of the three conditions fails
\* credits, bet and the reels are left unchanged.
C27_SpinGuards ==
    [][lastOp' = "handleSpin" =>
          IF ~isSpinning /\ bet > 0 /\ credits >= bet
          THEN /\ credits' = credits - bet
               /\ bet' = 0
               /\ isSpinning'
               /\ \A i \in 1 .. Len(reels') : reels'[i].isSpinning
          ELSE /\ credits' = credits
               /\ bet' = bet
               /\ reels' = reels
               /\ isSpinning' = isSpinning
      ]_vars

\* a spin refused for want of a bet, after an earlier spin was played
C27_Witness ==
    /\ lastOp = "handleSpin"
    /\ eventLog[1] = "nobet"
    /\ bet = 0
    /\ credits < initialCredits
    /\ ~isSpinning

SomeReelSpinning == \E i \in 1 .. Len(reels) : reels[i].isSpinning

\* C28: a spin is finalised exactly once, at the moment the last spinning reel
\* is stopped by stopReel, in whatever order the reels are stopped; before
\* that the spin button stays disabled and the machine stays spinning,
\* afterwards the spin button is enabled and every stop button is disabled.
C28_FinalisedAtLastStop ==
    /\ [](SomeReelSpinning => (isSpinning /\ spinDisabled))
    /\ [](isSpinning => SomeReelSpinning)
    /\ [][LET finalised == eventLog' # eventLog /\ eventLog'[1] = "finish"
          IN  /\ finalised <=>
                     (lastOp' = "stopReel" /\ SomeReelSpinning /\ ~SomeReelSpinning')
              /\ finalised =>
                     /\ ~isSpinning'
                     /\ ~spinDisabled'
                     /\ \A i \in 1 .. Len(reels') : reels'[i].stopDisabled
         ]_vars

\* a spin finalised by stopping reel 1 last
C28_Witness ==
    /\ lastOp = "stopReel"
    /\ Len(eventLog) >= 2
    /\ eventLog[1] = "finish"
    /\ eventLog[2] = "stop1"
    /\ ~isSpinning
    /\ ~spinDisabled

\* C29: from any reachable state, including mid-spin, handleReset restores
\* credits to initialCredits and bet to 0, stops every reel (no reel spinning,
\* no interval timer left, machine not spinning, spin button enabled) and
\* leaves the log with exactly one entry.
C29_SlotResetRestores ==
    lastOp = "handleReset" =>
        /\ credits = initialCredits
        /\ bet = 0
        /\ \A i \in 1 .. Len(reels) :
               /\ ~reels[i].isSpinning
               /\ ~reels[i].intervalId
               /\ reels[i].stopDisabled
        /\ ~isSpinning
        /\ ~spinDisabled
        /\ eventLog = <<"reset">>

\* a reset after a spin was charged
C29_Witness ==
    /\ lastOp = "handleReset"
    /\ initialCredits > 0
    /\ \A i \in 1 .. Len(reels) : reels[i].currentSymbols # <<>>
    /\ credits = initialCredits
    /\ bet = 0
    /\ eventLog = <<"reset">>

----------------------------------------------------------------------------
(* Properties of buildReelSequence, checked under SpecReel *)

\* the configured symbols hold at least two distinct ones
TwoDistinctSymbols ==
    \E j, k \in 1 .. Len(Symbols) : Symbols[j] # Symbols[k]

\* the configured symbol a draw selects: the one at floor(draw * count)
SymbolAt(draw) == Symbols[((draw * Len(Symbols)) \div RandDen) + 1]

\* the reach chance brought into [0,1], an absent one counting 0
ReachInRange ==
    IF reachChance = None THEN 0
    ELSE IF reachChance[1] < 0 THEN 0
    ELSE IF reachChance[1] > RandDen THEN RandDen
    ELSE reachChance[1]

\* C30: for a miss (given at least two distinct configured symbols),
\* buildReelSequence draws the three reel symbols first and the reach decision
\* after them; when reach triggers, reels 1 and 2 show the same symbol and reel
\* 3 a different one, and in no case does a miss show three identical symbols;
\* for a win it returns three identical win symbols without consuming any draw.
C30_ReelSequence ==
    [][lastOp' = "buildReelSequence" =>
          LET seq == reelSequence'
              reach == seq[2].triggerReach
          IN  /\ Len(seq) = 3
              /\ outcomeArg'.isWin =>
                     /\ provided' = <<>>
                     /\ randomScript' = randomScript
                     /\ seq[1].symbol = seq[2].symbol
                     /\ seq[2].symbol = seq[3].symbol
                     /\ seq[1].symbol = (IF outcomeArg'.isRush THEN "RUSH" ELSE "WIN")
              /\ (~outcomeArg'.isWin /\ TwoDistinctSymbols) =>
                     /\ Len(provided') = 3 + (IF ReachInRange > 0 THEN 1 ELSE 0)
                     /\ provided' = SubSeq(randomScript, 1, Len(provided'))
                     /\ seq[1].symbol = SymbolAt(drawn'[1])
                     /\ reach <=> (ReachInRange > 0 /\ drawn'[4] < ReachInRange)
                     /\ ~reach => seq[2].symbol = SymbolAt(drawn'[2])
                     /\ (~reach /\ ~(SymbolAt(drawn'[1]) = SymbolAt(drawn'[2])
                                      /\ SymbolAt(drawn'[2]) = SymbolAt(drawn'[3]))) =>
                            seq[3].symbol = SymbolAt(drawn'[3])
                     /\ reach => (seq[2].symbol = seq[1].symbol /\ seq[3].symbol # seq[1].symbol)
                     /\ ~(seq[1].symbol = seq[2].symbol /\ seq[2].symbol = seq[3].symbol)
      ]_vars

\* a miss whose three draws select the same symbol and whose fourth draw
\* triggers reach: reel 3 shows another symbol
C30_Witness ==
    /\ lastOp = "buildReelSequence"
    /\ ~outcomeArg.isWin
    /\ TwoDistinctSymbols
    /\ Len(drawn) = 4
    /\ SymbolAt(drawn[1]) = SymbolAt(drawn[3])
    /\ drawn[4] < ReachInRange
    /\ reelSequence[2].triggerReach
    /\ reelSequence[2].symbol = reelSequence[1].symbol
    /\ reelSequence[3].symbol # reelSequence[1].symbol

----------------------------------------------------------------------------
(* Properties of the construction, checked under SpecConstruct *)

\* a setup the claim calls an error
BadSetup ==
    \/ ~pocketsIsArray
    \/ pockets = <<>>
    \/ ~elements.creditDisplay
    \/ ~elements.ballCountDisplay
    \/ ~elements.eventLog

\* C21: constructing a PachinkoGame with an empty or non-array pocket list, or
\* without creditDisplay, ballCountDisplay or eventLog, throws at construction:
\* no game object exists, so no handler ever runs and no ball is ever charged
\* or counted on such a configuration.
C21_FailFast ==
    BadSetup =>
        /\ instance \in {"none", "thrown"}
        /\ lastOp \in {"none", "constructor"}
        /\ lastOp = "constructor" => instance = "thrown"
        /\ credits = 0
        /\ ballCount = 0
        /\ eventLog = <<>>
        /\ Len(randomScript) = ScriptLen

\* every element present and an empty pocket array: the constructor threw
C21_Witness ==
    /\ lastOp = "constructor"
    /\ instance = "thrown"
    /\ elements = AllElements
    /\ pocketsIsArray
    /\ pockets = <<>>

----------------------------------------------------------------------------
(* Claims about the played reel sequence (SpecPlay) *)

\* the reels listed are the first reels of the row, in their order
InOrder(order) == \A k \in 1 .. Len(order) : order[k] = k

\* the reel before the one a job started shows the symbol of its step and is at rest
PreviousShown ==
    LET before == lastStep.started - 1
    IN  /\ ~reelElements[before].isSpinning
        /\ reelElements[before].symbol = lastStep.sequence[before].symbol

\* C31: a played sequence stops the reels in the order 0, 1, 2: the reels a
\* chain has stopped so far, in the order it stopped them, are the first
\* reels of the row, all three once the chain completes; a chain starts a
\* reel after the first only when the reel before shows the symbol of its
\* step and no longer spins; and the reach indicator turns visible only in
\* a job that stops a reel whose step carries triggerReach.
C31_ReelsInOrder ==
    /\ [](/\ InOrder(lastStep.order)
          /\ lastStep.completed => Len(lastStep.order) = ReelCount
          /\ lastStep.started > 1 => PreviousShown)
    /\ [][(~reachVisible /\ reachVisible') =>
              /\ lastStep'.stopped > 0
              /\ lastStep'.sequence[lastStep'.stopped].triggerReach]_vars

\* a sequence played with spinning reels has completed with the reach
\* indicator shown, while a later sequence is still running
C31_Witness ==
    /\ lastStep.completed
    /\ lastStep.order = <<1, 2, 3>>
    /\ reelSpinDuration > 0
    /\ reachVisible
    /\ chains # <<>>

\* the markers the outcome `result` calls for, on the reel element el
MarkersOf(result, el) ==
    /\ el.isRush = (result.isWin /\ result.isRush)
    /\ el.isWin = (result.isWin /\ ~result.isRush)

\* some reel gains a marker in the step
MarkerSet ==
    \E index \in 1 .. Len(reelElements) :
        \/ ~reelElements[index].isWin /\ reelElements'[index].isWin
        \/ ~reelElements[index].isRush /\ reelElements'[index].isRush

\* C32: when a played sequence completes, every reel carries is-rush and not
\* is-win if its outcome was a rush, is-win and not is-rush if it was an
\* ordinary win, and neither marker if it was a miss; and a reel gains a
\* marker only in the job that stops the final reel of a sequence.
C32_MarkersMatchOutcome ==
    /\ [](lastStep.completed =>
              \A index \in 1 .. Len(reelElements) :
                  MarkersOf(lastStep.result, reelElements[index]))
    /\ [][MarkerSet => lastStep'.completed]_vars

\* the step finalizes a drop, in handleShoot itself or at the ball's animationend
Finalizes == pocketArg' # 0

\* the draws of the round finalized in the step come in the order selection,
\* hit roll, rush roll, reel draws: the step consumes the values the provider
\* returns next, the outcome is resolved from those that follow the
\* selection draw of the same handler, and the reel sequence is built from
\* those that follow the resolver's
RoundDrawsInOrder ==
    LET selection == IF picked' # 0
                     THEN pickPocket(pockets, randomScript \o <<0>>).used
                     ELSE <<>>
        rest == Rest(randomScript, Len(selection))
        res == resolvePocketOutcome(pockets[pocketArg'], rest \o <<0, 0>>)
        cosmetic == Rest(rest, Len(res.used))
    IN  /\ provided' = SubSeq(randomScript, 1, Len(provided'))
        /\ randomScript' = Rest(randomScript, Len(provided'))
        /\ outcome' = res.outcome
        /\ Len(provided') >= Len(selection) + Len(res.used)
        /\ Len(reelElements) > 0 =>
               reelSequence' = buildReelSequence(res.outcome, cosmetic \o <<0, 0, 0, 0>>).sequence

\* no provider value was consumed between the selection draw of the ball
\* whose animation ends and this step, which makes its hit roll
NoDrawSinceSelection == Len(randomScript) = Head(ballDraws)

\* C33: within a round the draws are consumed in the order pocket selection
\* (in handleShoot), hit roll, rush roll (in finalizeDrop), cosmetic reel
\* draws after them, and no draw of another round comes between the
\* selection draw and the hit roll of a round.
C33_RoundDrawOrder ==
    [][/\ Finalizes => RoundDrawsInOrder
       /\ lastOp' = "animationEnd" => NoDrawSinceSelection]_vars

----------------------------------------------------------------------------
(* Claims about the rounds of the game (Spec) *)

\* the step is an accepted handleShoot
AcceptedShot == lastOp' = "handleShoot" /\ ballCount' = ballCount + 1

\* C34: from handleReset until the next accepted handleShoot the ledger is
\* at rest: while credits equals initialCredits and ballCount is 0, as
\* handleReset leaves them, no step other than an accepted shot changes
\* either, the animationend of a ball shot before the reset included.
C34_LedgerAtRestAfterReset ==
    [][(credits = initialCredits /\ ballCount = 0 /\ ~AcceptedShot) =>
           (credits' = initialCredits /\ ballCount' = 0)]_vars

\* animateBall has nothing to wait for: no board, no animation, or a ball
\* that cannot take a listener
Synchronous == ~hasBoard \/ animationDuration = 0 \/ ~ballCanListen

\* C35: every accepted handleShoot leads to one finalizeDrop of the pocket it
\* picked, and no more: the shot either finalizes that pocket within the
\* call (synchronous configurations) and leaves no callback behind, or
\* leaves exactly one ball with that pocket on the board; an animationend
\* finalizes the pocket of the ball it belongs to and takes that ball off
\* the board; no other step finalizes or touches the balls; and a
\* finalization credits the reward of its outcome once.
C35_FinalizedOnce ==
    [][/\ AcceptedShot =>
              /\ picked' # 0
              /\ IF Synchronous
                 THEN pocketArg' = picked' /\ balls' = balls
                 ELSE pocketArg' = 0 /\ balls' = Append(balls, picked')
       /\ lastOp' = "animationEnd" =>
              /\ balls # <<>>
              /\ pocketArg' = Head(balls)
              /\ balls' = Tail(balls)
       /\ (~AcceptedShot /\ lastOp' # "animationEnd") =>
              /\ pocketArg' = 0
              /\ balls' = balls
       /\ Finalizes =>
              credits' = (IF AcceptedShot THEN credits - ballCost ELSE credits)
                             + outcome'.reward
       /\ ~Finalizes =>
              credits' \in {credits, credits - ballCost, initialCredits}
      ]_vars

\* the ball of the only shot since the last reset was finalized as a win by
\* its animationend, and no ball is left on the board
C35_Witness ==
    /\ lastOp = "animationEnd"
    /\ outcome.isWin
    /\ ballCount = 1
    /\ balls = <<>>
    /\ credits = initialCredits - ballCost + outcome.reward

\* C36: if the animationend of every ball on the board eventually comes,
\* the game never stays blocked in the dropping state: a dropping game has
\* a ball on the board whose callback will release it; whenever a ball is
\* on the board a finalizeDrop eventually follows, after which isDropping
\* is false and the shoot button is enabled; and a dropping game eventually
\* stops dropping.
C36_NeverBlocked ==
    /\ [](isDropping => balls # <<>>)
    /\ (balls # <<>>) ~> (lastOp = "animationEnd" /\ ~isDropping /\ ~shootDisabled)
    /\ isDropping ~> ~isDropping

\* a ball was finalized by its animationend while the ball of a later shot,
\* accepted after a reset, is still on the board
C36_Witness ==
    /\ lastOp = "animationEnd"
    /\ ~isDropping
    /\ ~shootDisabled
    /\ balls # <<>>

----------------------------------------------------------------------------
(* Claims about the shape of the outcome (SpecResolve) *)

\* the outcome `result` of an entry whose reward is `base` is well formed
WellFormed(result, base) ==
    /\ result.isRush => result.isWin
    /\ result.isWin <=> result.reward > 0
    /\ result.isWin => result.reward >= base

\* C37: every outcome resolvePocketOutcome returns is well formed: isRush
\* implies isWin, isWin holds exactly when reward > 0, and the reward of a
\* win is at least the base reward of the entry.
C37_OutcomeWellFormed == Resolved => WellFormed(outcome, BaseReward)

\* a rush paying more than the base reward of its entry
C37_Witness ==
    /\ Resolved
    /\ outcome.isWin
    /\ outcome.isRush
    /\ outcome.reward > BaseReward
    /\ BaseReward > 0


====
